---- MODULE Spec2Model ----
(***************************************************************************)
(* Batch orchestration of node-ai-services: the BatchTracker / AiSummaries *)
(* stores, the webhook handlers (WebhookServices), the dispatcher          *)
(* (AudioGenerationService) and the periodic maintenance sweep             *)
(* (BatchTimeoutService), each store operation being one atomic step.      *)
(***************************************************************************)
EXTENDS Naturals, Sequences, FiniteSets

\* ------------------------------------------------------------------ bounds
NumBatches == 2     \* batch ids
MaxLive == 1        \* batches created when requests and the sweep interleave
MaxInFlight == 2    \* webhook requests and sweep runs in flight together
MaxUnits == 2       \* summaries persisted per batch
MaxExpected == 3    \* expectedCount
SeqMaxUnits == 4    \* the same two, when requests are handled one after another
SeqMaxExpected == 4
NumUsers == 1
MaxFaults == 1      \* store operations that fail
NumUrls == 2        \* audioUrl values an audio webhook may carry
NumMessages == 2    \* errorMessage values a failure report may carry
MaxNow == 2         \* clock readings, in minutes, a summary run may start at
TimeoutMinutes == 30 \* createBatchTracker: 30 * 60 * 1000 ms

BatchIds == 1..NumBatches
Handlers == 1..MaxInFlight
Users == 1..NumUsers
Callers == 1..(NumUsers + 1)    \* the user ids a webhook may name
Urls == 1..NumUrls
Messages == 1..NumMessages
Times == 1..MaxNow

\* ------------------------------------------------------------------ state
VARIABLES
    batches,      \* ids of the BatchTracker documents that exist
    status,       \* BatchTracker.status
    receivedCount,\* BatchTracker.receivedCount
    expectedCount,\* BatchTracker.expectedCount
    timedOut,     \* timeoutAt <= now
    units,        \* AiSummaries documents per batch: <<[uid, audio]>>
    sent,         \* /generate-audio requests posted, per unit
    passes,       \* dispatch passes that posted at least one request
    recovered,    \* recoverFailedBatch's conditional update matched
    stamps,       \* the timestamps set: partialCompletedAt, completedAt
    web,          \* the webhook requests in flight
    sweep,        \* the maintenance run in flight
    isBatchMaintenanceRunning,
    faults,       \* store operations that failed so far
    isRunning,    \* SchedulerService.isRunning: the summary task's flag
    summaryPc,    \* where the summary task's invocation stands
    bodies,       \* task bodies in flight, per periodic task
    rejected,     \* /generate-audio requests that failed, per unit
    failureReason,\* BatchTracker.failureReason (0: not set)
    audioUrl,     \* BatchTracker.audioUrl (0: not set)
    summaryUrl,   \* AiSummaries.audioUrl, per unit (0: not set)
    mixes,        \* userMixes documents: <<userId, audioUrl>>
    createdAt,    \* BatchTracker.createdAt, in minutes (0: no record)
    timeoutAt,    \* BatchTracker.timeoutAt, in minutes (0: no record)
    summaries,    \* how many summaries the summary run in flight generated
    posted        \* how many of them the run sent to the summary service

\* the summary task's state and the count of task bodies in flight
sched == <<isRunning, summaryPc, bodies>>

\* what the audio webhooks store besides status and flag
payload == <<failureReason, audioUrl, summaryUrl, mixes>>

\* when a batch was created and when it times out
deadline == <<createdAt, timeoutAt>>

\* the output of the summary run in flight
run == <<summaries, posted>>

vars == <<batches, status, receivedCount, expectedCount, timedOut, units, sent,
          passes, recovered, stamps, web, sweep, isBatchMaintenanceRunning, faults,
          sched, rejected, payload, deadline, run>>

Statuses == {"pending", "partial_complete", "complete", "audio_requested",
             "audio_complete", "audio_failed", "failed"}

\* res: the status the controller answered the last request with (0: none
\* yet); err: a store operation of the request in flight failed
IdleWeb == [pc |-> "idle", b |-> 0, st |-> "none", rc |-> 0, aud |-> 0,
            tot |-> 0, q |-> <<>>, ret |-> "none", res |-> 0, err |-> FALSE]

\* the controller's answer once the service call returned (200) or threw (500)
Replied(code) == [IdleWeb EXCEPT !.res = code]

IdleSweep == [pc |-> "idle", b |-> 0, st |-> "none", rc |-> 0, cnt |-> 0, aud |-> 0,
              q |-> <<>>, ret |-> "none", list |-> <<>>, sel |-> {}, vis |-> {}]

\* ---------------------------------------------------------------- queries
Indices(n) == [i \in 1..n |-> i]

\* AiSummaries.countDocuments({ batchId })
CountSummaries(b) == Len(units[b])

\* AiSummaries.countDocuments({ batchId, isAudioGenerated: true })
CountWithAudio(b) == Cardinality({i \in 1..Len(units[b]) : units[b][i].audio})

\* the find without its isAudioGenerated filter
AllSummaries(b) == Indices(Len(units[b]))

\* AiSummaries.find({ batchId, isAudioGenerated: { $ne: true } })
SummariesWithoutAudio(b) ==
    SelectSeq(Indices(Len(units[b])), LAMBDA i : ~units[b][i].audio)

\* the 100% guard in place of the 50% guard
WholeReached(rc, b) == rc >= expectedCount[b]

\* (receivedCount / expectedCount) * 100 >= 50
HalfReached(rc, b) == 2 * rc >= expectedCount[b]

\* the guard without audio_failed
AudioRequestedOrComplete(st) == st \in {"audio_requested", "audio_complete"}

\* triggerAudioGeneration's guard: audio already processed for the batch
AudioAlreadyProcessed(st) == st \in {"audio_requested", "audio_complete", "audio_failed"}

\* an update that sets the timestamp field f when it matched
Stamp(b, f, matched) ==
    stamps' = IF matched THEN [stamps EXCEPT ![b] = @ \cup {f}] ELSE stamps

Init ==
    /\ batches = {}
    /\ status = [b \in BatchIds |-> "pending"]
    /\ receivedCount = [b \in BatchIds |-> 0]
    /\ expectedCount = [b \in BatchIds |-> 1]
    /\ timedOut = [b \in BatchIds |-> FALSE]
    /\ units = [b \in BatchIds |-> <<>>]
    /\ sent = [b \in BatchIds |-> <<>>]
    /\ passes = [b \in BatchIds |-> 0]
    /\ recovered = [b \in BatchIds |-> FALSE]
    /\ stamps = [b \in BatchIds |-> {}]
    /\ web = [h \in Handlers |-> IdleWeb]
    /\ sweep = IdleSweep
    /\ isBatchMaintenanceRunning = FALSE
    /\ faults = 0
    /\ isRunning = FALSE
    /\ summaryPc = "idle"
    /\ bodies = [summary |-> 0, maintenance |-> 0]
    /\ rejected = [b \in BatchIds |-> [i \in 1..SeqMaxUnits |-> 0]]
    /\ failureReason = [b \in BatchIds |-> 0]
    /\ audioUrl = [b \in BatchIds |-> 0]
    /\ summaryUrl = [b \in BatchIds |-> [i \in 1..SeqMaxUnits |-> 0]]
    /\ mixes = {}
    /\ createdAt = [b \in BatchIds |-> 0]
    /\ timeoutAt = [b \in BatchIds |-> 0]
    /\ summaries = 0
    /\ posted = 0

\* ------------------------------------------------------------ environment
\* createBatchTracker line 276: the deadline of a batch created at `now`
TimeoutAt(now) == now + TimeoutMinutes

\* SummaryService.createBatchTracker: a fresh pending batch of n expected units
BatchTrackerCreate(b, n, limit, now) ==
    /\ b \notin batches
    /\ \A c \in BatchIds : c < b => c \in batches
    /\ Cardinality(batches) < limit
    /\ batches' = batches \cup {b}
    /\ expectedCount' = [expectedCount EXCEPT ![b] = n]
    /\ receivedCount' = [receivedCount EXCEPT ![b] = 0]
    /\ status' = [status EXCEPT ![b] = "pending"]
    /\ createdAt' = [createdAt EXCEPT ![b] = now]
    /\ timeoutAt' = [timeoutAt EXCEPT ![b] = TimeoutAt(now)]
    /\ timedOut' = [timedOut EXCEPT ![b] = FALSE]
    /\ UNCHANGED <<units, sent, passes, recovered, stamps, web, sweep,
                   isBatchMaintenanceRunning, faults, rejected, payload>>

\* a summary run creates its tracker (the run's scheduling is not followed)
createBatchTracker(b, n, limit) ==
    /\ BatchTrackerCreate(b, n, limit, 1)
    /\ UNCHANGED <<sched, run>>

\* the clock passes the batch's timeoutAt
Expire(b) ==
    /\ b \in batches
    /\ ~timedOut[b]
    /\ timedOut' = [timedOut EXCEPT ![b] = TRUE]
    /\ UNCHANGED <<batches, status, receivedCount, expectedCount, units, sent, passes,
                   recovered, stamps, web, sweep, isBatchMaintenanceRunning, faults, sched,
                   rejected, payload, deadline, run>>

\* -------------------------------------------- checkBatchCompletion's flow
\* line 100: all summaries have audio
AudioCheck(w) == IF w.aud >= w.rc /\ w.rc > 0 THEN "c_tot" ELSE "idle"

\* lines 94-97, and handleFullCompletion's branch on the snapshot's status
FullCheck(w) ==
    IF w.rc >= expectedCount[w.b] /\ w.st \in {"pending", "partial_complete"}
    THEN (IF w.st = "partial_complete" THEN "f_pc" ELSE "f_cas")
    ELSE AudioCheck(w)

\* lines 89-91
PartialCheck(w) ==
    IF HalfReached(w.rc, w.b) /\ w.st = "pending" THEN "p_cas" ELSE FullCheck(w)

\* a request whose handler returned keeps no locals
Goto(w, pc) == IF pc = "idle" THEN Replied(200) ELSE [w EXCEPT !.pc = pc]

\* ------------------------------------------------- triggerAudioGeneration
\* lines 16-20: skip when the audio was already requested for the batch
triggerAudioGeneration_read(p) ==
    IF AudioAlreadyProcessed(status[p.b])
    THEN [p EXCEPT !.pc = p.ret]
    ELSE [p EXCEPT !.pc = "d_find"]

\* lines 23-31: fetch the summaries without audio; none, return
triggerAudioGeneration_find(p) ==
    LET q == SummariesWithoutAudio(p.b)
    IN  IF q = <<>> THEN [p EXCEPT !.pc = p.ret]
        ELSE [p EXCEPT !.pc = "d_count", !.q = q]

\* lines 44-54: one fire-and-forget post, then the delay before the next one
triggerAudioGeneration_sent(p) ==
    IF Len(p.q) = 1 THEN [p EXCEPT !.pc = p.ret, !.q = <<>>]
    ELSE [p EXCEPT !.pc = "d_send", !.q = Tail(p.q)]

\* a post that is not made once a request of the batch has failed
sendUnlessRejected(b, i) ==
    sent' = [sent EXCEPT ![b][i] =
                IF \E j \in 1..Len(sent[b]) : rejected[b][j] > 0 THEN @ ELSE @ + 1]

\* sendIndividualSummaryForAudio: axios.post('/generate-audio')
sendIndividualSummaryForAudio(b, i) == sent' = [sent EXCEPT ![b][i] = @ + 1]

\* sendIndividualSummaryForAudio lines 86-89: a posted request fails; the
\* promise's catch handler logs the error (a request that succeeds is logged
\* by the then handler, lines 84-85, and leaves no trace in the state)
postRejected(b, i) ==
    /\ i <= Len(sent[b])
    /\ rejected[b][i] < sent[b][i]
    /\ rejected' = [rejected EXCEPT ![b][i] = @ + 1]
    /\ UNCHANGED <<batches, status, receivedCount, expectedCount, timedOut, units, sent,
                   passes, recovered, stamps, web, sweep, isBatchMaintenanceRunning,
                   faults, sched, payload, deadline, run>>

\* ------------------------------------------------ WebhookServices, ingress
\* saveSummary lines 41-47: AiSummaries.create
saveSummary(h, b, u, cap) ==
    /\ web[h].pc = "idle"
    /\ b \in batches
    /\ Len(units[b]) < cap
    /\ units' = [units EXCEPT ![b] = Append(@, [uid |-> u, audio |-> FALSE])]
    /\ sent' = [sent EXCEPT ![b] = Append(@, 0)]
    /\ web' = [web EXCEPT ![h] = [IdleWeb EXCEPT !.pc = "inc", !.b = b]]
    /\ UNCHANGED <<batches, status, receivedCount, expectedCount, timedOut, passes,
                   recovered, stamps, sweep, isBatchMaintenanceRunning, faults, sched,
                   rejected, payload, deadline, run>>

\* an update that sets the count of a first arrival instead of incrementing
SetToOne(b) == 1

\* checkBatchCompletion line 68: { $inc: { receivedCount: 1 } }, atomic in
\* the store, and the count the returned document carries
Incremented(b) == receivedCount[b] + 1

\* checkBatchCompletion lines 67-76: $inc receivedCount, { new: true }
checkBatchCompletion_inc(h) ==
    LET w == web[h] IN
    /\ w.pc = "inc"
    /\ receivedCount' = [receivedCount EXCEPT ![w.b] = Incremented(w.b)]
    /\ web' = [web EXCEPT ![h] = [w EXCEPT !.pc = "cnt", !.st = status[w.b],
                                            !.rc = Incremented(w.b)]]
    /\ UNCHANGED <<batches, status, expectedCount, timedOut, units, sent, passes,
                   recovered, stamps, sweep, isBatchMaintenanceRunning, faults, sched,
                   rejected, payload, deadline, run>>

\* checkBatchCompletion lines 83-86: count the summaries with audio, then branch
checkBatchCompletion_count(h) ==
    LET w == [web[h] EXCEPT !.aud = CountWithAudio(web[h].b)] IN
    /\ web[h].pc = "cnt"
    /\ web' = [web EXCEPT ![h] = Goto(w, PartialCheck(w))]
    /\ UNCHANGED <<batches, status, receivedCount, expectedCount, timedOut, units, sent,
                   passes, recovered, stamps, sweep, isBatchMaintenanceRunning, faults,
                   sched, rejected, payload, deadline, run>>

\* the same update with the status missing from its filter
PartialFilterAny(b) == b \in BatchIds

\* handlePartialCompletion line 118: the conditional update's filter
PartialFilter(b) == status[b] = "pending"

\* handlePartialCompletion lines 117-129
handlePartialCompletion_cas(h) ==
    LET w == web[h] IN
    /\ w.pc = "p_cas"
    /\ IF PartialFilter(w.b)
       THEN /\ status' = [status EXCEPT ![w.b] = "partial_complete"]
            /\ web' = [web EXCEPT ![h] = [w EXCEPT !.pc = "d_read", !.ret = "p_req"]]
       ELSE /\ status' = status
            /\ web' = [web EXCEPT ![h] = Goto(w, FullCheck(w))]
    /\ Stamp(w.b, "partialCompletedAt", PartialFilter(w.b))
    /\ UNCHANGED <<batches, receivedCount, expectedCount, timedOut, units, sent, passes,
                   recovered, sweep, isBatchMaintenanceRunning, faults, sched, rejected,
                   payload, deadline, run>>

\* a caller that writes partial_complete back after the dispatch
PartialAgain(b) == "partial_complete"

\* the status a caller writes after triggerAudioGeneration returned
RequestedStatus(b) == "audio_requested"

\* handlePartialCompletion lines 135-141: unconditional update
handlePartialCompletion_requested(h) ==
    LET w == web[h] IN
    /\ w.pc = "p_req"
    /\ status' = [status EXCEPT ![w.b] = RequestedStatus(w.b)]
    /\ web' = [web EXCEPT ![h] = Goto(w, FullCheck(w))]
    /\ UNCHANGED stamps
    /\ UNCHANGED <<batches, receivedCount, expectedCount, timedOut, units, sent, passes,
                   recovered, sweep, isBatchMaintenanceRunning, faults, sched, rejected,
                   payload, deadline, run>>

\* handleFullCompletion lines 156-165: partial_complete -> complete, no dispatch
handleFullCompletion_partial(h) ==
    LET w == web[h] IN
    /\ w.pc = "f_pc"
    /\ status' = [status EXCEPT ![w.b] =
                    IF @ = "partial_complete" THEN "complete" ELSE @]
    /\ web' = [web EXCEPT ![h] = Goto(w, AudioCheck(w))]
    /\ Stamp(w.b, "completedAt", status[w.b] = "partial_complete")
    /\ UNCHANGED <<batches, receivedCount, expectedCount, timedOut, units, sent, passes,
                   recovered, sweep, isBatchMaintenanceRunning, faults, sched, rejected,
                   payload, deadline, run>>

\* a filter that matches the batch in any status
FullFilterAny(b) == TRUE

\* handleFullCompletion line 170: the conditional update's filter
FullFilter(b) == status[b] = "pending"

\* handleFullCompletion lines 169-181
handleFullCompletion_cas(h) ==
    LET w == web[h] IN
    /\ w.pc = "f_cas"
    /\ IF FullFilter(w.b)
       THEN /\ status' = [status EXCEPT ![w.b] = "complete"]
            /\ web' = [web EXCEPT ![h] = [w EXCEPT !.pc = "d_read", !.ret = "f_req"]]
       ELSE /\ status' = status
            /\ web' = [web EXCEPT ![h] = Goto(w, AudioCheck(w))]
    /\ Stamp(w.b, "completedAt", FullFilter(w.b))
    /\ UNCHANGED <<batches, receivedCount, expectedCount, timedOut, units, sent, passes,
                   recovered, sweep, isBatchMaintenanceRunning, faults, sched, rejected,
                   payload, deadline, run>>

\* handleFullCompletion lines 186-192: unconditional update
handleFullCompletion_requested(h) ==
    LET w == web[h] IN
    /\ w.pc = "f_req"
    /\ status' = [status EXCEPT ![w.b] = RequestedStatus(w.b)]
    /\ web' = [web EXCEPT ![h] = Goto(w, AudioCheck(w))]
    /\ UNCHANGED stamps
    /\ UNCHANGED <<batches, receivedCount, expectedCount, timedOut, units, sent, passes,
                   recovered, sweep, isBatchMaintenanceRunning, faults, sched, rejected,
                   payload, deadline, run>>

\* triggerAudioGeneration called by a webhook handler: the status read
webDispatch_read(h) ==
    /\ web[h].pc = "d_read"
    /\ web' = [web EXCEPT ![h] = triggerAudioGeneration_read(web[h])]
    /\ UNCHANGED <<batches, status, receivedCount, expectedCount, timedOut, units, sent,
                   passes, recovered, stamps, sweep, isBatchMaintenanceRunning, faults,
                   sched, rejected, payload, deadline, run>>

\* ... the fetch of the summaries without audio
webDispatch_find(h) ==
    /\ web[h].pc = "d_find"
    /\ web' = [web EXCEPT ![h] = triggerAudioGeneration_find(web[h])]
    /\ UNCHANGED <<batches, status, receivedCount, expectedCount, timedOut, units, sent,
                   passes, recovered, stamps, sweep, isBatchMaintenanceRunning, faults,
                   sched, rejected, payload, deadline, run>>

\* ... line 34's count, after which the first request is posted
webDispatch_count(h) ==
    LET w == web[h] IN
    /\ w.pc = "d_count"
    /\ sendIndividualSummaryForAudio(w.b, Head(w.q))
    /\ passes' = [passes EXCEPT ![w.b] = @ + 1]
    /\ web' = [web EXCEPT ![h] = triggerAudioGeneration_sent(w)]
    /\ UNCHANGED <<batches, status, receivedCount, expectedCount, timedOut, units,
                   recovered, stamps, sweep, isBatchMaintenanceRunning, faults, sched,
                   rejected, payload, deadline, run>>

\* ... the next request, after the delay
webDispatch_send(h) ==
    LET w == web[h] IN
    /\ w.pc = "d_send"
    /\ sendIndividualSummaryForAudio(w.b, Head(w.q))
    /\ web' = [web EXCEPT ![h] = triggerAudioGeneration_sent(w)]
    /\ UNCHANGED <<batches, status, receivedCount, expectedCount, timedOut, units, passes,
                   recovered, stamps, sweep, isBatchMaintenanceRunning, faults, sched,
                   rejected, payload, deadline, run>>

\* checkBatchAudioCompletion lines 254-261: find the batch, count its summaries
checkBatchAudioCompletion_total(h) ==
    LET w == web[h] IN
    /\ w.pc = "c_tot"
    /\ web' = [web EXCEPT ![h] = [w EXCEPT !.pc = "c_aud", !.tot = CountSummaries(w.b)]]
    /\ UNCHANGED <<batches, status, receivedCount, expectedCount, timedOut, units, sent,
                   passes, recovered, stamps, sweep, isBatchMaintenanceRunning, faults,
                   sched, rejected, payload, deadline, run>>

\* checkBatchAudioCompletion lines 262-270: count those with audio, then branch
checkBatchAudioCompletion_audio(h) ==
    LET w == web[h]
        n == CountWithAudio(w.b)
    IN
    /\ w.pc = "c_aud"
    /\ web' = [web EXCEPT ![h] =
                 IF n >= w.tot /\ w.tot > 0 THEN [w EXCEPT !.pc = "c_write", !.aud = n]
                 ELSE Replied(200)]
    /\ UNCHANGED <<batches, status, receivedCount, expectedCount, timedOut, units, sent,
                   passes, recovered, stamps, sweep, isBatchMaintenanceRunning, faults,
                   sched, rejected, payload, deadline, run>>

\* checkBatchAudioCompletion line 272: the conditional update's filter
AudioCompleteFilter(b) == status[b] # "audio_complete"

\* checkBatchAudioCompletion lines 271-277
checkBatchAudioCompletion_write(h) ==
    LET w == web[h] IN
    /\ w.pc = "c_write"
    /\ status' = [status EXCEPT ![w.b] =
                    IF AudioCompleteFilter(w.b) THEN "audio_complete" ELSE @]
    /\ web' = [web EXCEPT ![h] = Replied(200)]
    /\ UNCHANGED stamps
    /\ UNCHANGED <<batches, receivedCount, expectedCount, timedOut, units, sent, passes,
                   recovered, sweep, isBatchMaintenanceRunning, faults, sched, rejected,
                   payload, deadline, run>>

\* an update whose filter names the unit only: { _id: summaryId }
SummaryById(b, i, u) == i \in 1..Len(units[b])

\* handleSummaryAudioGenerationSuccess lines 209-210: the update's filter
\* { _id: summaryId, userId } matches a persisted unit of that user
SummaryFilter(b, i, u) == i \in 1..Len(units[b]) /\ units[b][i].uid = u

\* handleSummaryAudioGenerationSuccess lines 209-237: flag the summary that
\* matches { _id, userId }, then check the batch when a batchId came with it
handleSummaryAudioGenerationSuccess(h, b, i, u, url, withBatch) ==
    /\ web[h].pc = "idle"
    /\ b \in batches
    /\ IF SummaryFilter(b, i, u)
       THEN /\ units' = [units EXCEPT ![b][i].audio = TRUE]
            /\ summaryUrl' = [summaryUrl EXCEPT ![b][i] = url]
            /\ mixes' = mixes \cup {<<u, url>>}
            /\ web' = [web EXCEPT ![h] =
                         IF withBatch THEN [IdleWeb EXCEPT !.pc = "c_tot", !.b = b]
                         ELSE Replied(200)]
       ELSE /\ web' = [web EXCEPT ![h] = Replied(500)]
            /\ UNCHANGED <<units, summaryUrl, mixes>>
    /\ UNCHANGED <<batches, status, receivedCount, expectedCount, timedOut, sent, passes,
                   recovered, stamps, sweep, isBatchMaintenanceRunning, faults, sched,
                   rejected, failureReason, audioUrl, deadline, run>>

\* handleAudioGenerationSuccess lines 308-315 (batch level): unconditional update
handleAudioGenerationSuccess(b, u, url) ==
    /\ b \in batches
    /\ mixes' = mixes \cup {<<u, url>>}
    /\ status' = [status EXCEPT ![b] = "audio_complete"]
    /\ audioUrl' = [audioUrl EXCEPT ![b] = url]
    /\ UNCHANGED stamps
    /\ UNCHANGED <<batches, receivedCount, expectedCount, timedOut, units, sent, passes,
                   recovered, web, sweep, isBatchMaintenanceRunning, faults, sched,
                   rejected, failureReason, summaryUrl, deadline, run>>

\* a filter that matches only a batch whose audio was requested
FailureFilterRequested(b) == status[b] = "audio_requested"

\* handleAudioGenerationFailure line 336: the update's filter is { batchId }
FailureFilter(b) == b \in batches

\* handleAudioGenerationFailure lines 335-342
handleAudioGenerationFailure(b, errorMessage) ==
    /\ b \in batches
    /\ status' = [status EXCEPT ![b] = IF FailureFilter(b) THEN "audio_failed" ELSE @]
    /\ failureReason' = [failureReason EXCEPT ![b] =
                            IF FailureFilter(b) THEN errorMessage ELSE @]
    /\ UNCHANGED stamps
    /\ UNCHANGED <<batches, receivedCount, expectedCount, timedOut, units, sent, passes,
                   recovered, web, sweep, isBatchMaintenanceRunning, faults, sched,
                   rejected, audioUrl, summaryUrl, mixes, deadline, run>>

\* a store operation of a webhook handler fails: the enclosing catch logs it
\* (checkBatchCompletion 104, handlePartialCompletion 143, handleFullCompletion
\* 195, checkBatchAudioCompletion 281) and the caller goes on
webCatch(w) ==
    IF w.pc \in {"p_cas", "p_req"} \/ (w.pc \in {"d_read", "d_find", "d_count"} /\ w.ret = "p_req")
    THEN Goto(w, FullCheck(w))
    ELSE IF w.pc \in {"f_pc", "f_cas", "f_req"}
            \/ (w.pc \in {"d_read", "d_find", "d_count"} /\ w.ret = "f_req")
    THEN Goto(w, AudioCheck(w))
    ELSE Replied(200)

webFault(h) ==
    /\ faults < MaxFaults
    /\ web[h].pc \notin {"idle", "d_send"}
    /\ faults' = faults + 1
    /\ web' = [web EXCEPT ![h] =
                 LET w == webCatch(web[h])
                 IN  IF w.pc = "idle" THEN w ELSE [w EXCEPT !.err = TRUE]]
    /\ UNCHANGED <<batches, status, receivedCount, expectedCount, timedOut, units, sent,
                   passes, recovered, stamps, sweep, isBatchMaintenanceRunning, sched,
                   rejected, payload, deadline, run>>

\* --------------------------------------------- BatchTimeoutService, sweep
\* the documents a find returns, in insertion order, as read at that moment
Snapshot(S) ==
    LET ids == SelectSeq(Indices(NumBatches), LAMBDA b : b \in S)
    IN  [k \in 1..Len(ids) |->
            [b |-> ids[k], st |-> status[ids[k]], rc |-> receivedCount[ids[k]]]]

\* the for-loop of a pass: the next batch of the list, or the next pass
Pick(s, first, nextPass) ==
    IF s.list = <<>>
    THEN [s EXCEPT !.pc = nextPass, !.b = 0, !.st = "none", !.rc = 0, !.cnt = 0,
                   !.aud = 0, !.q = <<>>, !.ret = "none"]
    ELSE [s EXCEPT !.pc = first, !.b = Head(s.list).b, !.st = Head(s.list).st,
                   !.rc = Head(s.list).rc, !.list = Tail(s.list), !.cnt = 0, !.aud = 0,
                   !.q = <<>>, !.ret = "none", !.vis = @ \cup {Head(s.list).b}]

TNext(s) == Pick(s, "t_cnt", "o_find")
ONext(s) == Pick(s, "o_cnt", "p_find")
PNext(s) == Pick(s, "pp_cas", "fin")

\* an exit that leaves the flag as it is
KeepFlag(flag) == flag

\* SchedulerService lines 96 and 128: what the finally block of a task
\* assigns to the task's flag
ClearOnExit(flag) == FALSE

\* a guard that lets every fire through
NeverRunning == FALSE

\* SchedulerService.executeBatchMaintenanceTask lines 105-108: the reentrancy guard
MaintenanceTaskRunning == isBatchMaintenanceRunning

\* SchedulerService.executeBatchMaintenanceTask lines 105-116: a fire of the
\* cron job; skipped with a warning while an invocation is in flight
executeBatchMaintenanceTask ==
    IF MaintenanceTaskRunning
    THEN UNCHANGED vars
    ELSE /\ isBatchMaintenanceRunning' = TRUE
         /\ bodies' = [bodies EXCEPT !.maintenance = @ + 1]
         /\ sweep' = [IdleSweep EXCEPT !.pc = "t_find"]
         /\ UNCHANGED <<batches, status, receivedCount, expectedCount, timedOut, units,
                        sent, passes, recovered, stamps, web, faults, isRunning, summaryPc,
                        rejected, payload, deadline, run>>

\* a find that takes up partial_complete batches only
TimedOutPartialOnly(b) == timedOut[b] /\ status[b] = "partial_complete"

\* processTimeoutBatches lines 40-43: the find's filter
TimedOutFilter(b) == timedOut[b] /\ status[b] \in {"pending", "partial_complete"}

\* processTimeoutBatches lines 40-49
processTimeoutBatches_find ==
    LET S == {b \in batches : TimedOutFilter(b)} IN
    /\ sweep.pc = "t_find"
    /\ sweep' = TNext([sweep EXCEPT !.list = Snapshot(S), !.sel = S, !.vis = {}])
    /\ UNCHANGED <<batches, status, receivedCount, expectedCount, timedOut, units, sent,
                   passes, recovered, stamps, web, isBatchMaintenanceRunning, faults,
                   sched, rejected, payload, deadline, run>>

\* handleTimeoutBatch lines 186-192: skip a processed batch, else count its summaries
handleTimeoutBatch_count ==
    /\ sweep.pc = "t_cnt"
    /\ sweep' = IF sweep.st \notin {"pending", "partial_complete"} THEN TNext(sweep)
                ELSE [sweep EXCEPT !.pc = "t_aud", !.cnt = CountSummaries(sweep.b)]
    /\ UNCHANGED <<batches, status, receivedCount, expectedCount, timedOut, units, sent,
                   passes, recovered, stamps, web, isBatchMaintenanceRunning, faults,
                   sched, rejected, payload, deadline, run>>

\* handleTimeoutBatch lines 210-266: the branch taken after the counts
TimeoutBranch(s) ==
    IF s.cnt > 0
    THEN (IF s.st = "pending" THEN [s EXCEPT !.pc = "t_cas"]
          ELSE IF s.st = "partial_complete" THEN [s EXCEPT !.pc = "t_pc"]
          ELSE TNext(s))
    ELSE [s EXCEPT !.pc = "t_fail"]

\* handleTimeoutBatch lines 193-202: count the summaries with audio
handleTimeoutBatch_audio ==
    LET s == [sweep EXCEPT !.aud = CountWithAudio(sweep.b)] IN
    /\ sweep.pc = "t_aud"
    /\ sweep' = IF s.cnt # s.rc THEN [s EXCEPT !.pc = "t_fix"] ELSE TimeoutBranch(s)
    /\ UNCHANGED <<batches, status, receivedCount, expectedCount, timedOut, units, sent,
                   passes, recovered, stamps, web, isBatchMaintenanceRunning, faults,
                   sched, rejected, payload, deadline, run>>

\* an update that writes the count of the snapshot back
StaleCount(s) == s.rc

\* the value handleTimeoutBatch writes to receivedCount
ReconciledCount(s) == s.cnt

\* handleTimeoutBatch lines 203-206: receivedCount := the count found
handleTimeoutBatch_fix ==
    /\ sweep.pc = "t_fix"
    /\ receivedCount' = [receivedCount EXCEPT ![sweep.b] = ReconciledCount(sweep)]
    /\ sweep' = TimeoutBranch(sweep)
    /\ UNCHANGED <<batches, status, expectedCount, timedOut, units, sent, passes,
                   recovered, stamps, web, isBatchMaintenanceRunning, faults, sched,
                   rejected, payload, deadline, run>>

\* the same update with the status missing from its filter
TimeoutFilterAny(b) == b \in BatchIds

\* handleTimeoutBatch line 216: the conditional update's filter
TimeoutFilter(b) == status[b] = "pending"

\* handleTimeoutBatch lines 215-230: pending -> complete, then dispatch or not
handleTimeoutBatch_cas ==
    /\ sweep.pc = "t_cas"
    /\ IF TimeoutFilter(sweep.b)
       THEN /\ status' = [status EXCEPT ![sweep.b] = "complete"]
            /\ sweep' = IF sweep.cnt > sweep.aud
                        THEN [sweep EXCEPT !.pc = "d_read", !.ret = "t_req"]
                        ELSE [sweep EXCEPT !.pc = "t_ac"]
       ELSE /\ status' = status
            /\ sweep' = TNext(sweep)
    /\ Stamp(sweep.b, "completedAt", TimeoutFilter(sweep.b))
    /\ UNCHANGED <<batches, receivedCount, expectedCount, timedOut, units, sent, passes,
                   recovered, web, isBatchMaintenanceRunning, faults, sched, rejected,
                   payload, deadline, run>>

\* handleTimeoutBatch lines 235-241: unconditional update
handleTimeoutBatch_requested ==
    /\ sweep.pc = "t_req"
    /\ status' = [status EXCEPT ![sweep.b] = RequestedStatus(sweep.b)]
    /\ sweep' = TNext(sweep)
    /\ UNCHANGED stamps
    /\ UNCHANGED <<batches, receivedCount, expectedCount, timedOut, units, sent, passes,
                   recovered, web, isBatchMaintenanceRunning, faults, sched, rejected,
                   payload, deadline, run>>

\* the status of the dispatching branch, written by mistake
RequestedInstead(b) == "audio_requested"

\* the status the sweep writes when every summary already has audio
AllAudioStatus(b) == "audio_complete"

\* handleTimeoutBatch lines 246-252: unconditional update
handleTimeoutBatch_audioComplete ==
    /\ sweep.pc = "t_ac"
    /\ status' = [status EXCEPT ![sweep.b] = AllAudioStatus(sweep.b)]
    /\ sweep' = TNext(sweep)
    /\ UNCHANGED stamps
    /\ UNCHANGED <<batches, receivedCount, expectedCount, timedOut, units, sent, passes,
                   recovered, web, isBatchMaintenanceRunning, faults, sched, rejected,
                   payload, deadline, run>>

\* handleTimeoutBatch lines 257-263: partial_complete -> complete, no dispatch
handleTimeoutBatch_partial ==
    /\ sweep.pc = "t_pc"
    /\ status' = [status EXCEPT ![sweep.b] =
                    IF @ = "partial_complete" THEN "complete" ELSE @]
    /\ sweep' = TNext(sweep)
    /\ Stamp(sweep.b, "completedAt", status[sweep.b] = "partial_complete")
    /\ UNCHANGED <<batches, receivedCount, expectedCount, timedOut, units, sent, passes,
                   recovered, web, isBatchMaintenanceRunning, faults, sched, rejected,
                   payload, deadline, run>>

\* handleTimeoutBatch line 269: the conditional update's filter
FailFilter(b) == status[b] \in {"pending", "partial_complete"}

\* the status of the neighbouring branch, written by mistake
CompleteStatus(b) == "complete"

\* the status handleTimeoutBatch writes when no summary was found
FailedStatus(b) == "failed"

\* handleTimeoutBatch lines 268-275
handleTimeoutBatch_failed ==
    /\ sweep.pc = "t_fail"
    /\ status' = [status EXCEPT ![sweep.b] =
                    IF FailFilter(sweep.b) THEN FailedStatus(sweep.b) ELSE @]
    /\ sweep' = TNext(sweep)
    /\ Stamp(sweep.b, "completedAt", FailFilter(sweep.b))
    /\ UNCHANGED <<batches, receivedCount, expectedCount, timedOut, units, sent, passes,
                   recovered, web, isBatchMaintenanceRunning, faults, sched, rejected,
                   payload, deadline, run>>

\* processOrphanedSummaries lines 63-66: the find's filter
OrphanFilter(b) == status[b] = "failed" /\ receivedCount[b] = 0

\* processOrphanedSummaries lines 63-70
processOrphanedSummaries_find ==
    LET S == {b \in batches : OrphanFilter(b)} IN
    /\ sweep.pc = "o_find"
    /\ sweep' = ONext([sweep EXCEPT !.list = Snapshot(S), !.sel = S, !.vis = {}])
    /\ UNCHANGED <<batches, status, receivedCount, expectedCount, timedOut, units, sent,
                   passes, recovered, stamps, web, isBatchMaintenanceRunning, faults,
                   sched, rejected, payload, deadline, run>>

\* processOrphanedSummaries lines 72-77, recoverFailedBatch lines 91-94
processOrphanedSummaries_count ==
    LET s == [sweep EXCEPT !.cnt = CountSummaries(sweep.b)] IN
    /\ sweep.pc = "o_cnt"
    /\ sweep' = IF s.cnt > 0 /\ s.st = "failed" THEN [s EXCEPT !.pc = "r_aud"]
                ELSE ONext(s)
    /\ UNCHANGED <<batches, status, receivedCount, expectedCount, timedOut, units, sent,
                   passes, recovered, stamps, web, isBatchMaintenanceRunning, faults,
                   sched, rejected, payload, deadline, run>>

\* recoverFailedBatch lines 97-101
recoverFailedBatch_audio ==
    /\ sweep.pc = "r_aud"
    /\ sweep' = [sweep EXCEPT !.pc = "r_cas", !.aud = CountWithAudio(sweep.b)]
    /\ UNCHANGED <<batches, status, receivedCount, expectedCount, timedOut, units, sent,
                   passes, recovered, stamps, web, isBatchMaintenanceRunning, faults,
                   sched, rejected, payload, deadline, run>>

\* a filter that matches the batch in any status
RecoverFilterAny(b) == TRUE

\* recoverFailedBatch line 107: the conditional update's filter
RecoverFilter(b) == status[b] = "failed"

\* an update that leaves the status as it is
KeptStatus(b) == status[b]

\* the status recoverFailedBatch's conditional update writes
RecoveredStatus(b) == "complete"

\* recoverFailedBatch lines 106-122: failed -> complete with the count found
recoverFailedBatch_cas ==
    /\ sweep.pc = "r_cas"
    /\ IF RecoverFilter(sweep.b)
       THEN /\ status' = [status EXCEPT ![sweep.b] = RecoveredStatus(sweep.b)]
            /\ receivedCount' = [receivedCount EXCEPT ![sweep.b] = sweep.cnt]
            /\ recovered' = [recovered EXCEPT ![sweep.b] = TRUE]
            /\ sweep' = IF sweep.cnt > sweep.aud
                        THEN [sweep EXCEPT !.pc = "d_read", !.ret = "r_req"]
                        ELSE [sweep EXCEPT !.pc = "r_ac"]
       ELSE /\ UNCHANGED <<status, receivedCount, recovered>>
            /\ sweep' = ONext(sweep)
    /\ Stamp(sweep.b, "completedAt", RecoverFilter(sweep.b))
    /\ UNCHANGED <<batches, expectedCount, timedOut, units, sent, passes, web,
                   isBatchMaintenanceRunning, faults, sched, rejected, payload, deadline, run>>

\* recoverFailedBatch lines 127-133: unconditional update
recoverFailedBatch_requested ==
    /\ sweep.pc = "r_req"
    /\ status' = [status EXCEPT ![sweep.b] = RequestedStatus(sweep.b)]
    /\ sweep' = ONext(sweep)
    /\ UNCHANGED stamps
    /\ UNCHANGED <<batches, receivedCount, expectedCount, timedOut, units, sent, passes,
                   recovered, web, isBatchMaintenanceRunning, faults, sched, rejected,
                   payload, deadline, run>>

\* recoverFailedBatch lines 138-144: unconditional update
recoverFailedBatch_audioComplete ==
    /\ sweep.pc = "r_ac"
    /\ status' = [status EXCEPT ![sweep.b] = AllAudioStatus(sweep.b)]
    /\ sweep' = ONext(sweep)
    /\ UNCHANGED stamps
    /\ UNCHANGED <<batches, receivedCount, expectedCount, timedOut, units, sent, passes,
                   recovered, web, isBatchMaintenanceRunning, faults, sched, rejected,
                   payload, deadline, run>>

\* checkPartialCompletionBatches lines 159-162: the find's filter
PendingFilter(b) == status[b] = "pending" /\ receivedCount[b] > 0

\* checkPartialCompletionBatches lines 159-172: the batches found, and of those
\* the ones whose snapshot is at 50% (lines 167-169; line 293 passes for them)
checkPartialCompletionBatches_find ==
    LET S == {b \in batches : PendingFilter(b)}
        T == {b \in S : HalfReached(receivedCount[b], b)}
    IN
    /\ sweep.pc = "p_find"
    /\ sweep' = PNext([sweep EXCEPT !.list = Snapshot(T), !.sel = S, !.vis = S \ T])
    /\ UNCHANGED <<batches, status, receivedCount, expectedCount, timedOut, units, sent,
                   passes, recovered, stamps, web, isBatchMaintenanceRunning, faults,
                   sched, rejected, payload, deadline, run>>

\* triggerPartialCompletion line 300: the conditional update's filter
TriggerFilter(b) == status[b] = "pending"

\* triggerPartialCompletion lines 299-311
triggerPartialCompletion_cas ==
    /\ sweep.pc = "pp_cas"
    /\ IF TriggerFilter(sweep.b)
       THEN /\ status' = [status EXCEPT ![sweep.b] = "partial_complete"]
            /\ sweep' = [sweep EXCEPT !.pc = "d_read", !.ret = "pp_req"]
       ELSE /\ status' = status
            /\ sweep' = PNext(sweep)
    /\ Stamp(sweep.b, "partialCompletedAt", TriggerFilter(sweep.b))
    /\ UNCHANGED <<batches, receivedCount, expectedCount, timedOut, units, sent, passes,
                   recovered, web, isBatchMaintenanceRunning, faults, sched, rejected,
                   payload, deadline, run>>

\* triggerPartialCompletion lines 317-323: unconditional update
triggerPartialCompletion_requested ==
    /\ sweep.pc = "pp_req"
    /\ status' = [status EXCEPT ![sweep.b] = RequestedStatus(sweep.b)]
    /\ sweep' = PNext(sweep)
    /\ UNCHANGED stamps
    /\ UNCHANGED <<batches, receivedCount, expectedCount, timedOut, units, sent, passes,
                   recovered, web, isBatchMaintenanceRunning, faults, sched, rejected,
                   payload, deadline, run>>

\* triggerAudioGeneration called by the sweep: the status read
sweepDispatch_read ==
    /\ sweep.pc = "d_read"
    /\ sweep' = triggerAudioGeneration_read(sweep)
    /\ UNCHANGED <<batches, status, receivedCount, expectedCount, timedOut, units, sent,
                   passes, recovered, stamps, web, isBatchMaintenanceRunning, faults,
                   sched, rejected, payload, deadline, run>>

\* ... the fetch of the summaries without audio
sweepDispatch_find ==
    /\ sweep.pc = "d_find"
    /\ sweep' = triggerAudioGeneration_find(sweep)
    /\ UNCHANGED <<batches, status, receivedCount, expectedCount, timedOut, units, sent,
                   passes, recovered, stamps, web, isBatchMaintenanceRunning, faults,
                   sched, rejected, payload, deadline, run>>

\* ... line 34's count, after which the first request is posted
sweepDispatch_count ==
    /\ sweep.pc = "d_count"
    /\ sendIndividualSummaryForAudio(sweep.b, Head(sweep.q))
    /\ passes' = [passes EXCEPT ![sweep.b] = @ + 1]
    /\ sweep' = triggerAudioGeneration_sent(sweep)
    /\ UNCHANGED <<batches, status, receivedCount, expectedCount, timedOut, units,
                   recovered, stamps, web, isBatchMaintenanceRunning, faults, sched,
                   rejected, payload, deadline, run>>

\* ... the next request, after the delay
sweepDispatch_send ==
    /\ sweep.pc = "d_send"
    /\ sendIndividualSummaryForAudio(sweep.b, Head(sweep.q))
    /\ sweep' = triggerAudioGeneration_sent(sweep)
    /\ UNCHANGED <<batches, status, receivedCount, expectedCount, timedOut, units, passes,
                   recovered, stamps, web, isBatchMaintenanceRunning, faults, sched,
                   rejected, payload, deadline, run>>

\* runPeriodicMaintenance lines 404-407 and the scheduler's finally (line 128)
runPeriodicMaintenance_end ==
    /\ sweep.pc = "fin"
    /\ isBatchMaintenanceRunning' = ClearOnExit(isBatchMaintenanceRunning)
    /\ bodies' = [bodies EXCEPT !.maintenance = @ - 1]
    /\ sweep' = IdleSweep
    /\ UNCHANGED <<batches, status, receivedCount, expectedCount, timedOut, units, sent,
                   passes, recovered, stamps, web, faults, isRunning, summaryPc, rejected,
                   payload, deadline, run>>

\* a store operation of the sweep fails: where the enclosing catch resumes.
\* handleTimeoutBatch (282), recoverFailedBatch (148) and triggerPartialCompletion
\* (327) catch per batch; the finds, and the count of processOrphanedSummaries
\* (line 72, inside the loop), are caught by the pass's own catch (51, 80, 175)
sweepCatch(s) ==
    IF s.pc = "t_find" THEN [s EXCEPT !.pc = "o_find"]
    ELSE IF s.pc \in {"t_cnt", "t_aud", "t_fix", "t_cas", "t_req", "t_ac", "t_pc", "t_fail"}
            \/ (s.pc \in {"d_read", "d_find", "d_count"} /\ s.ret = "t_req")
    THEN TNext(s)
    ELSE IF s.pc \in {"o_find", "o_cnt"}
    THEN [s EXCEPT !.pc = "p_find", !.b = 0, !.st = "none", !.rc = 0, !.cnt = 0]
    ELSE IF s.pc \in {"r_aud", "r_cas", "r_req", "r_ac"}
            \/ (s.pc \in {"d_read", "d_find", "d_count"} /\ s.ret = "r_req")
    THEN ONext(s)
    ELSE IF s.pc = "p_find" THEN [s EXCEPT !.pc = "fin"]
    ELSE PNext(s)

sweepFault ==
    /\ faults < MaxFaults
    /\ sweep.pc \notin {"idle", "d_send", "fin"}
    /\ faults' = faults + 1
    /\ sweep' = sweepCatch(sweep)
    /\ UNCHANGED <<batches, status, receivedCount, expectedCount, timedOut, units, sent,
                   passes, recovered, stamps, web, isBatchMaintenanceRunning, sched,
                   rejected, payload, deadline, run>>

\* ------------------------------------------- SchedulerService, summary task
\* SchedulerService.executeSummaryTask lines 73-76: the reentrancy guard
SummaryTaskRunning == isRunning

\* SchedulerService.executeSummaryTask lines 71-84: a fire of the cron job
\* (or a manual or start-up run); skipped with a warning while an invocation
\* is in flight
executeSummaryTask ==
    IF SummaryTaskRunning
    THEN UNCHANGED vars
    ELSE /\ isRunning' = TRUE
         /\ bodies' = [bodies EXCEPT !.summary = @ + 1]
         /\ summaryPc' = "generate"
         /\ UNCHANGED <<batches, status, receivedCount, expectedCount, timedOut, units,
                        sent, passes, recovered, stamps, web, sweep,
                        isBatchMaintenanceRunning, faults, rejected, payload, deadline, run>>

\* a run that takes any output for summaries to send
NeverEmpty(n) == FALSE

\* executeScheduledSummaryTask line 244: no summaries were generated
NoSummaries(n) == n = 0

\* executeScheduledSummaryTask lines 240-246: generateSummariesForAllUsers
\* returned no summaries, and the run returns
executeScheduledSummaryTask_none(n) ==
    /\ summaryPc = "generate"
    /\ NoSummaries(n)
    /\ summaries' = n
    /\ summaryPc' = "finally"
    /\ UNCHANGED <<batches, status, receivedCount, expectedCount, timedOut, units,
                   sent, passes, recovered, stamps, web, sweep,
                   isBatchMaintenanceRunning, faults, isRunning, bodies, rejected,
                   payload, deadline, posted>>

\* executeScheduledSummaryTask lines 240-251: n summaries were generated and
\* the batch's tracker is created
executeScheduledSummaryTask_create(b, n, now) ==
    /\ summaryPc = "generate"
    /\ ~NoSummaries(n)
    /\ summaries' = n
    /\ BatchTrackerCreate(b, n, NumBatches, now)
    /\ summaryPc' = "send"
    /\ UNCHANGED <<isRunning, bodies, posted>>

\* executeScheduledSummaryTask line 254: the summaries are sent to the service
executeScheduledSummaryTask_send ==
    /\ summaryPc = "send"
    /\ posted' = summaries
    /\ summaryPc' = "finally"
    /\ UNCHANGED <<batches, status, receivedCount, expectedCount, timedOut, units,
                   sent, passes, recovered, stamps, web, sweep,
                   isBatchMaintenanceRunning, faults, isRunning, bodies, rejected,
                   payload, deadline, summaries>>

\* executeScheduledSummaryTask lines 258-261: generating the summaries,
\* creating the tracker or sending the summaries failed; the error is logged
\* and thrown on to the scheduler's catch
executeScheduledSummaryTask_throw ==
    /\ summaryPc \in {"generate", "send"}
    /\ summaryPc' = "catch"
    /\ UNCHANGED <<batches, status, receivedCount, expectedCount, timedOut, units,
                   sent, passes, recovered, stamps, web, sweep,
                   isBatchMaintenanceRunning, faults, isRunning, bodies, rejected,
                   payload, deadline, run>>

\* executeSummaryTask lines 89-93 and sendErrorAlert lines 259-280: the alert
\* is logged, and posted when an alert URL is configured
sendErrorAlert(hasUrl) ==
    /\ summaryPc = "catch"
    /\ summaryPc' = IF hasUrl THEN "alert" ELSE "finally"
    /\ UNCHANGED <<batches, status, receivedCount, expectedCount, timedOut, units,
                   sent, passes, recovered, stamps, web, sweep,
                   isBatchMaintenanceRunning, faults, isRunning, bodies, rejected,
                   payload, deadline, run>>

\* sendErrorAlert lines 277-280: the post of the alert succeeded
sendErrorAlert_posted ==
    /\ summaryPc = "alert"
    /\ summaryPc' = "finally"
    /\ UNCHANGED <<batches, status, receivedCount, expectedCount, timedOut, units,
                   sent, passes, recovered, stamps, web, sweep,
                   isBatchMaintenanceRunning, faults, isRunning, bodies, rejected,
                   payload, deadline, run>>

\* sendErrorAlert lines 283-285: the post failed; its catch logs the error
sendErrorAlert_failed ==
    /\ summaryPc = "alert"
    /\ summaryPc' = "alert_catch"
    /\ UNCHANGED <<batches, status, receivedCount, expectedCount, timedOut, units,
                   sent, passes, recovered, stamps, web, sweep,
                   isBatchMaintenanceRunning, faults, isRunning, bodies, rejected,
                   payload, deadline, run>>

\* sendErrorAlert line 286: it returns to the scheduler's catch block
sendErrorAlert_caught ==
    /\ summaryPc = "alert_catch"
    /\ summaryPc' = "finally"
    /\ UNCHANGED <<batches, status, receivedCount, expectedCount, timedOut, units,
                   sent, passes, recovered, stamps, web, sweep,
                   isBatchMaintenanceRunning, faults, isRunning, bodies, rejected,
                   payload, deadline, run>>

\* SchedulerService.executeSummaryTask lines 95-97: the finally block
executeSummaryTask_finally ==
    /\ summaryPc = "finally"
    /\ isRunning' = ClearOnExit(isRunning)
    /\ bodies' = [bodies EXCEPT !.summary = @ - 1]
    /\ summaryPc' = "idle"
    /\ summaries' = 0
    /\ posted' = 0
    /\ UNCHANGED <<batches, status, receivedCount, expectedCount, timedOut, units,
                   sent, passes, recovered, stamps, web, sweep,
                   isBatchMaintenanceRunning, faults, rejected, payload, deadline>>

\* the steps of a unit-arrival request after the summary is stored
EvaluatorStep(h) ==
    \/ checkBatchCompletion_inc(h)
    \/ checkBatchCompletion_count(h)
    \/ handlePartialCompletion_cas(h)
    \/ handlePartialCompletion_requested(h)
    \/ handleFullCompletion_partial(h)
    \/ handleFullCompletion_cas(h)
    \/ webDispatch_read(h)
    \/ webDispatch_find(h)
    \/ webDispatch_count(h)
    \/ webDispatch_send(h)

\* the steps of an artifact-ready request after the summary is updated
AudioStep(h) ==
    \/ checkBatchAudioCompletion_total(h)
    \/ checkBatchAudioCompletion_audio(h)
    \/ checkBatchAudioCompletion_write(h)

\* the timeout pass
TimeoutStep ==
    \/ processTimeoutBatches_find
    \/ handleTimeoutBatch_count
    \/ handleTimeoutBatch_audio
    \/ handleTimeoutBatch_fix
    \/ handleTimeoutBatch_cas
    \/ handleTimeoutBatch_requested
    \/ handleTimeoutBatch_partial
    \/ handleTimeoutBatch_failed

\* the orphan pass
OrphanStep ==
    \/ processOrphanedSummaries_find
    \/ processOrphanedSummaries_count
    \/ recoverFailedBatch_audio
    \/ recoverFailedBatch_cas
    \/ recoverFailedBatch_requested

\* the partial-completion pass and the end of the run
PartialStep ==
    \/ checkPartialCompletionBatches_find
    \/ triggerPartialCompletion_cas
    \/ triggerPartialCompletion_requested
    \/ runPeriodicMaintenance_end

\* the Dispatcher called from a pass
SweepDispatchStep ==
    \/ sweepDispatch_read
    \/ sweepDispatch_find
    \/ sweepDispatch_count
    \/ sweepDispatch_send

\* the webhook requests and sweep runs in flight
InFlight ==
    Cardinality({h \in Handlers : web[h].pc # "idle"}) + (IF sweep.pc = "idle" THEN 0 ELSE 1)

\* the lowest free request slot takes the next webhook
Free(h) == web[h].pc = "idle" /\ \A g \in Handlers : g < h => web[g].pc # "idle"

\* requests and the sweep interleave at every store operation; no store failure
Next ==
    \/ \E b \in BatchIds, n \in 1..MaxExpected : createBatchTracker(b, n, MaxLive)
    \/ \E b \in BatchIds : Expire(b)
    \/ \E h \in Handlers, b \in BatchIds, u \in Users :
          InFlight < MaxInFlight /\ Free(h) /\ saveSummary(h, b, u, MaxUnits)
    \/ \E h \in Handlers, b \in BatchIds, i \in 1..MaxUnits, u \in Users :
          InFlight < MaxInFlight /\ Free(h)
              /\ i \in 1..Len(units[b])
              /\ handleSummaryAudioGenerationSuccess(h, b, i, u, 1, TRUE)
    \/ \E b \in BatchIds : InFlight < MaxInFlight /\ handleAudioGenerationFailure(b, 1)
    \/ \E h \in Handlers : EvaluatorStep(h)
    \/ \E h \in Handlers : AudioStep(h)
    \/ InFlight < MaxInFlight /\ executeBatchMaintenanceTask
    \/ TimeoutStep
    \/ handleTimeoutBatch_audioComplete
    \/ OrphanStep
    \/ recoverFailedBatch_audioComplete
    \/ PartialStep
    \/ SweepDispatchStep

Spec == Init /\ [][Next]_vars

\* concurrent unit-arrival requests only
WebNext ==
    \/ \E b \in BatchIds, n \in 1..MaxExpected : createBatchTracker(b, n, MaxLive)
    \/ \E h \in Handlers, b \in BatchIds, u \in Users :
          InFlight < MaxInFlight /\ Free(h) /\ saveSummary(h, b, u, MaxUnits)
    \/ \E h \in Handlers : EvaluatorStep(h)

WebSpec == Init /\ [][WebNext]_vars

\* every request and every sweep run is handled to completion before the
\* next one starts; store operations may fail
SeqNext ==
    \/ \E b \in BatchIds, n \in 1..SeqMaxExpected : createBatchTracker(b, n, MaxLive)
    \/ \E b \in BatchIds : Expire(b)
    \/ \E h \in Handlers, b \in BatchIds, u \in Users :
          InFlight = 0 /\ Free(h) /\ saveSummary(h, b, u, SeqMaxUnits)
    \/ \E h \in Handlers, b \in BatchIds, i \in 1..SeqMaxUnits, u \in Users :
          InFlight = 0 /\ Free(h)
              /\ i \in 1..Len(units[b])
              /\ handleSummaryAudioGenerationSuccess(h, b, i, u, 1, TRUE)
    \/ \E b \in BatchIds, u \in Users : InFlight = 0 /\ handleAudioGenerationSuccess(b, u, 1)
    \/ \E b \in BatchIds : InFlight = 0 /\ handleAudioGenerationFailure(b, 1)
    \/ \E h \in Handlers : EvaluatorStep(h)
    \/ \E h \in Handlers : handleFullCompletion_requested(h)
    \/ \E h \in Handlers : AudioStep(h)
    \/ \E h \in Handlers : webFault(h)
    \/ InFlight = 0 /\ executeBatchMaintenanceTask
    \/ TimeoutStep
    \/ handleTimeoutBatch_audioComplete
    \/ OrphanStep
    \/ PartialStep
    \/ SweepDispatchStep
    \/ sweepFault

SeqSpec == Init /\ [][SeqNext]_vars

\* several batches in the store; requests and sweep runs one at a time; the
\* store operations of the sweep may fail
SweepNext ==
    \/ \E b \in BatchIds, n \in 1..MaxExpected : createBatchTracker(b, n, NumBatches)
    \/ \E b \in BatchIds : Expire(b)
    \/ \E h \in Handlers, b \in BatchIds, u \in Users :
          InFlight = 0 /\ Free(h) /\ saveSummary(h, b, u, MaxUnits)
    \/ \E h \in Handlers : EvaluatorStep(h)
    \/ \E h \in Handlers : handleFullCompletion_requested(h)
    \/ \E h \in Handlers : webFault(h)
    \/ InFlight = 0 /\ executeBatchMaintenanceTask
    \/ TimeoutStep
    \/ OrphanStep
    \/ PartialStep
    \/ SweepDispatchStep
    \/ sweepFault

SweepSpec == Init /\ [][SweepNext]_vars

\* unit-arrival requests only, each handled to completion before the next
ArrivalNext ==
    \/ \E b \in BatchIds, n \in 1..SeqMaxExpected : createBatchTracker(b, n, NumBatches)
    \/ \E h \in Handlers, b \in BatchIds, u \in Users :
          InFlight = 0 /\ Free(h) /\ saveSummary(h, b, u, SeqMaxUnits)
    \/ \E h \in Handlers : checkBatchCompletion_inc(h)
    \/ \E h \in Handlers : checkBatchCompletion_count(h)
    \/ \E h \in Handlers : handlePartialCompletion_cas(h)
    \/ \E h \in Handlers : handlePartialCompletion_requested(h)
    \/ \E h \in Handlers : handleFullCompletion_cas(h)
    \/ \E h \in Handlers : webDispatch_read(h)
    \/ \E h \in Handlers : webDispatch_find(h)
    \/ \E h \in Handlers : webDispatch_count(h)
    \/ \E h \in Handlers : webDispatch_send(h)

ArrivalSpec == Init /\ [][ArrivalNext]_vars

\* unit-arrival requests one at a time; a posted request may fail at any
\* later moment
DispatchNext ==
    \/ ArrivalNext
    \/ \E b \in BatchIds, i \in 1..SeqMaxUnits : postRejected(b, i)

DispatchSpec == Init /\ [][DispatchNext]_vars

\* requests and sweep runs one at a time; the clock passes a deadline only
\* between runs and no store operation of a sweep run fails
TwiceNext ==
    \/ \E b \in BatchIds, n \in 1..SeqMaxExpected : createBatchTracker(b, n, MaxLive)
    \/ \E b \in BatchIds : InFlight = 0 /\ Expire(b)
    \/ \E h \in Handlers, b \in BatchIds, u \in Users :
          InFlight = 0 /\ Free(h) /\ saveSummary(h, b, u, SeqMaxUnits)
    \/ \E h \in Handlers, b \in BatchIds, i \in 1..SeqMaxUnits, u \in Users :
          InFlight = 0 /\ Free(h)
              /\ i \in 1..Len(units[b])
              /\ handleSummaryAudioGenerationSuccess(h, b, i, u, 1, TRUE)
    \/ \E h \in Handlers : EvaluatorStep(h)
    \/ \E h \in Handlers : handleFullCompletion_requested(h)
    \/ \E h \in Handlers : AudioStep(h)
    \/ \E h \in Handlers : webFault(h)
    \/ InFlight = 0 /\ executeBatchMaintenanceTask
    \/ TimeoutStep
    \/ handleTimeoutBatch_audioComplete
    \/ OrphanStep
    \/ PartialStep
    \/ SweepDispatchStep

TwiceSpec == Init /\ [][TwiceNext]_vars

\* unit-arrival requests, and between them the audio webhooks with any
\* audioUrl and errorMessage
ReportNext ==
    \/ WebNext
    \/ \E h \in Handlers, b \in BatchIds, i \in 1..MaxUnits, u \in Callers, url \in Urls :
          InFlight = 0 /\ Free(h)
              /\ handleSummaryAudioGenerationSuccess(h, b, i, u, url, TRUE)
    \/ \E h \in Handlers : AudioStep(h)
    \/ \E b \in BatchIds, u \in Users, url \in Urls :
          InFlight = 0 /\ handleAudioGenerationSuccess(b, u, url)
    \/ \E b \in BatchIds, m \in Messages :
          InFlight = 0 /\ handleAudioGenerationFailure(b, m)

ReportSpec == Init /\ [][ReportNext]_vars

\* unit-arrival and artifact-ready requests interleave at every store
\* operation; no sweep, no artifact-failed report, no store failure
AudioNext ==
    \/ \E b \in BatchIds, n \in 1..MaxExpected : createBatchTracker(b, n, MaxLive)
    \/ \E h \in Handlers, b \in BatchIds, u \in Users :
          InFlight < MaxInFlight /\ Free(h) /\ saveSummary(h, b, u, MaxUnits)
    \/ \E h \in Handlers, b \in BatchIds, i \in 1..MaxUnits, u \in Users :
          InFlight < MaxInFlight /\ Free(h)
              /\ i \in 1..Len(units[b])
              /\ handleSummaryAudioGenerationSuccess(h, b, i, u, 1, TRUE)
    \/ \E h \in Handlers : EvaluatorStep(h)
    \/ \E h \in Handlers : AudioStep(h)

AudioSpec == Init /\ [][AudioNext]_vars

\* the steps of a unit-arrival request that occur when requests run one at
\* a time
ArrivalStep(h) ==
    \/ checkBatchCompletion_inc(h)
    \/ checkBatchCompletion_count(h)
    \/ handlePartialCompletion_cas(h)
    \/ handlePartialCompletion_requested(h)
    \/ handleFullCompletion_cas(h)
    \/ webDispatch_read(h)
    \/ webDispatch_find(h)
    \/ webDispatch_count(h)
    \/ webDispatch_send(h)

\* the steps of a sweep run that occur when its store operations succeed and
\* no request is in flight
QuietSweepStep ==
    \/ processTimeoutBatches_find
    \/ handleTimeoutBatch_count
    \/ handleTimeoutBatch_audio
    \/ handleTimeoutBatch_cas
    \/ handleTimeoutBatch_requested
    \/ handleTimeoutBatch_failed
    \/ processOrphanedSummaries_find
    \/ processOrphanedSummaries_count
    \/ checkPartialCompletionBatches_find
    \/ runPeriodicMaintenance_end
    \/ sweepDispatch_read
    \/ sweepDispatch_find
    \/ sweepDispatch_count

\* requests and sweep runs one at a time, without store failures
LiveNext ==
    \/ \E b \in BatchIds, n \in 1..MaxExpected : createBatchTracker(b, n, MaxLive)
    \/ \E b \in BatchIds : Expire(b)
    \/ \E h \in Handlers, b \in BatchIds, u \in Users :
          InFlight = 0 /\ Free(h) /\ saveSummary(h, b, u, MaxUnits)
    \/ \E h \in Handlers : ArrivalStep(h)
    \/ InFlight = 0 /\ executeBatchMaintenanceTask
    \/ QuietSweepStep

\* every started request runs to its end, every batch's deadline passes, the
\* scheduler keeps firing the sweep and every started sweep runs to its end
LiveSpec ==
    /\ Init
    /\ [][LiveNext]_vars
    /\ \A h \in Handlers : WF_vars(ArrivalStep(h))
    /\ \A b \in BatchIds : WF_vars(Expire(b))
    /\ WF_vars(InFlight = 0 /\ executeBatchMaintenanceTask)
    /\ WF_vars(QuietSweepStep)

\* one batch; requests and sweep runs one at a time; a store operation of a
\* request or of the sweep may fail
StallNext ==
    \/ \E b \in BatchIds, n \in 1..MaxExpected : createBatchTracker(b, n, MaxLive)
    \/ \E b \in BatchIds : Expire(b)
    \/ \E h \in Handlers, b \in BatchIds, u \in Users :
          InFlight = 0 /\ Free(h) /\ saveSummary(h, b, u, MaxUnits)
    \/ \E h \in Handlers : EvaluatorStep(h)
    \/ \E h \in Handlers : handleFullCompletion_requested(h)
    \/ \E h \in Handlers : webFault(h)
    \/ InFlight = 0 /\ executeBatchMaintenanceTask
    \/ TimeoutStep
    \/ OrphanStep
    \/ PartialStep
    \/ SweepDispatchStep
    \/ sweepFault

\* every started request runs to its end, every batch's deadline passes, the
\* scheduler keeps firing the sweep and every started sweep runs to its end;
\* no failure is required to happen
StallSpec ==
    /\ Init
    /\ [][StallNext]_vars
    /\ \A h \in Handlers :
          WF_vars(EvaluatorStep(h) \/ handleFullCompletion_requested(h))
    /\ \A b \in BatchIds : WF_vars(Expire(b))
    /\ WF_vars(InFlight = 0 /\ executeBatchMaintenanceTask)
    /\ WF_vars(TimeoutStep \/ OrphanStep \/ PartialStep \/ SweepDispatchStep)

\* the steps of a sweep run over batches that received no unit
EmptySweepStep ==
    \/ processTimeoutBatches_find
    \/ handleTimeoutBatch_count
    \/ handleTimeoutBatch_audio
    \/ handleTimeoutBatch_failed
    \/ processOrphanedSummaries_find
    \/ processOrphanedSummaries_count
    \/ checkPartialCompletionBatches_find
    \/ runPeriodicMaintenance_end

\* the scheduler: both cron jobs fire at any time, also while an invocation
\* of either task is in flight; no webhook arrives
SchedNext ==
    \/ executeSummaryTask
    \/ \E n \in 0..MaxExpected : executeScheduledSummaryTask_none(n)
    \/ \E b \in BatchIds, n \in 0..MaxExpected, now \in Times :
          executeScheduledSummaryTask_create(b, n, now)
    \/ executeScheduledSummaryTask_send
    \/ executeScheduledSummaryTask_throw
    \/ \E hasUrl \in BOOLEAN : sendErrorAlert(hasUrl)
    \/ sendErrorAlert_posted
    \/ sendErrorAlert_failed
    \/ sendErrorAlert_caught
    \/ executeSummaryTask_finally
    \/ \E b \in BatchIds : Expire(b)
    \/ executeBatchMaintenanceTask
    \/ EmptySweepStep

SchedSpec == Init /\ [][SchedNext]_vars

\* =================================================================== claims
\* the lifecycle's transition table
AllowedTransitions ==
    {<<"pending", "partial_complete">>, <<"pending", "complete">>,
     <<"partial_complete", "complete">>, <<"partial_complete", "audio_requested">>,
     <<"complete", "audio_requested">>, <<"audio_requested", "audio_complete">>,
     <<"audio_requested", "audio_failed">>, <<"pending", "failed">>,
     <<"partial_complete", "failed">>, <<"failed", "complete">>}

\* no webhook request is in flight
WebQuiet == \A h \in Handlers : web[h].pc = "idle"

\* C1: every change of a batch's status is one of the ten transitions of the
\* lifecycle table, under any interleaving of requests and sweep runs
C1_OnlyLifecycleTransitions ==
    [][\A b \in BatchIds :
          status'[b] # status[b] => <<status[b], status'[b]>> \in AllowedTransitions]_vars

\* C2: when concurrent unit-arrival requests for a pending batch cross the 50%
\* threshold, pending -> partial_complete is taken exactly once and exactly one
\* dispatch pass sends: never a second one, and one once the requests returned
C2_OnePartialCompletion ==
    /\ [](\A b \in batches :
            /\ passes[b] <= 1
            /\ (WebQuiet /\ receivedCount[b] > 0 /\ HalfReached(receivedCount[b], b))
                  => (passes[b] = 1 /\ "partialCompletedAt" \in stamps[b]))
    /\ [][\A b \in BatchIds :
            (status[b] = "pending" /\ status'[b] = "partial_complete")
               => (passes[b] = 0 /\ "partialCompletedAt" \notin stamps[b])]_vars

\* two requests are at the conditional update of the same pending batch
C2_Witness ==
    \E b \in batches :
        /\ status[b] = "pending"
        /\ \A h \in Handlers : web[h].pc = "p_cas" /\ web[h].b = b

\* C3: over a batch's life at most one dispatch pass sends requests, and no
\* unit is sent twice, however the requests and the sweep's passes interleave
C3_AtMostOneDispatch ==
    \A b \in BatchIds :
        /\ passes[b] <= 1
        /\ \A i \in 1..Len(sent[b]) : sent[b][i] <= 1

\* a request's pass is sending while the sweep is at a conditional update of
\* the same batch
C3_Witness ==
    \E b \in batches, h \in Handlers :
        /\ passes[b] = 1
        /\ web[h].b = b /\ web[h].pc \in {"d_send", "p_req"}
        /\ sweep.b = b /\ sweep.pc \in {"t_cas", "pp_cas", "r_cas"}

\* C4: with the unit-arrival requests of a batch handled one after another
\* and no sweep, the batch is made partial_complete once receivedCount is at
\* least half of expectedCount, is made complete once receivedCount reaches
\* expectedCount, and no second dispatch pass follows the one at 50%
C4_SequentialArrivals ==
    \A b \in batches :
        WebQuiet =>
            /\ (receivedCount[b] > 0 /\ HalfReached(receivedCount[b], b))
                  => "partialCompletedAt" \in stamps[b]
            /\ receivedCount[b] >= expectedCount[b] => "completedAt" \in stamps[b]
            /\ passes[b] <= 1

\* C5: when no store operation failed, a sweep run that started after a unit
\* of a failed batch was persisted through the unit-arrival webhook does not
\* leave the batch failed
C5_LateUnitRecovered ==
    \A b \in batches :
        (faults = 0 /\ WebQuiet /\ sweep.pc = "fin" /\ units[b] # <<>>)
            => status[b] # "failed"

\* the timeout pass is handling batch b
InTimeoutPass(s, b) ==
    /\ s.b = b
    /\ \/ s.pc \in {"t_cnt", "t_aud", "t_fix", "t_cas", "t_req", "t_ac", "t_pc", "t_fail"}
       \/ (s.pc \in {"d_read", "d_find", "d_count", "d_send"} /\ s.ret = "t_req")

C7_RecoveredNeverFailedAgain ==
    \A b \in BatchIds : recovered[b] => status[b] # "failed"

\* a later sweep run starts on a recovered batch
C7_Witness ==
    \E b \in batches : recovered[b] /\ timedOut[b] /\ sweep.pc = "t_find"

\* C8: when the sweep finds that a batch has at least one unit and that all
\* its units have an artifact, and wins its conditional update (pending ->
\* complete in the timeout pass, failed -> complete in the orphan pass), it
\* goes on to write audio_complete and sends no dispatch request
C8_AllAudioSkipsDispatch ==
    [][\A b \in batches :
          (/\ sweep.b = b /\ sweep' # sweep
           /\ sweep.cnt >= 1 /\ sweep.aud >= sweep.cnt)
             => /\ (sweep.pc = "t_cas" /\ status[b] = "pending") => sweep'.pc = "t_ac"
                /\ (sweep.pc = "r_cas" /\ status[b] = "failed") => sweep'.pc = "r_ac"
                /\ sweep.pc \in {"t_ac", "r_ac"} => status'[b] = "audio_complete"
                /\ sweep.pc \in {"t_cas", "r_cas", "t_ac", "r_ac"}
                      => (sent' = sent /\ passes' = passes)]_vars

\* the timeout pass has just written audio_complete for a batch all of whose
\* units have an artifact, and nothing was dispatched for it
C8_Witness ==
    \E b \in batches :
        /\ sweep.pc = "o_find" /\ b \in sweep.vis
        /\ units[b] # <<>> /\ CountWithAudio(b) = Len(units[b])
        /\ "completedAt" \in stamps[b] /\ "partialCompletedAt" \notin stamps[b]
        /\ status[b] = "audio_complete"
        /\ passes[b] = 0

\* C9: in each of the three passes every batch the pass selected is processed,
\* also when a store operation for another batch of the pass failed
C9_PassProcessesEveryBatch ==
    sweep.pc \in {"o_find", "p_find", "fin"} => sweep.sel \subseteq sweep.vis

\* the same unit-arrival event was persisted twice for batch b
DeliveredTwice(b) ==
    \E i, j \in 1..Len(units[b]) : i # j /\ units[b][i].uid = units[b][j].uid

\* C10: after the same unit-arrival event was delivered twice and the timeout
\* pass has reconciled the batch, no webhook running meanwhile, receivedCount
\* is the number of units persisted for the batch
C10_ReconciledCountIsPersisted ==
    \A b \in batches :
        (/\ DeliveredTwice(b)
         /\ sweep.b = b
         /\ \/ sweep.pc \in {"t_cas", "t_req", "t_ac", "t_pc", "t_fail"}
            \/ (sweep.pc \in {"d_read", "d_find", "d_count", "d_send"}
                  /\ sweep.ret = "t_req"))
            => receivedCount[b] = Len(units[b])

\* the reconciliation has just corrected the count of a batch with a
\* duplicated unit
C10_Witness ==
    \E b \in batches :
        /\ DeliveredTwice(b)
        /\ sweep.b = b /\ sweep.pc \in {"t_cas", "t_pc"}
        /\ sweep.rc # sweep.cnt
        /\ receivedCount[b] = Len(units[b])

\* every unit persisted for batch b has its artifact flag set
AllHaveAudio(b) == units[b] # <<>> /\ CountWithAudio(b) = Len(units[b])

\* C11: once every persisted unit of a batch has its artifact and the
\* handlers have run to completion, the batch is audio_complete, and it stays
\* audio_complete while that is so; also when an artifact-ready webhook is
\* handled before the dispatching handler has written audio_requested
C11_AllAudioReachesAudioComplete ==
    /\ [](\A b \in batches :
            (WebQuiet /\ AllHaveAudio(b)) => status[b] = "audio_complete")
    /\ [][\A b \in batches :
            (AllHaveAudio(b) /\ status[b] = "audio_complete" /\ units'[b] = units[b])
               => status'[b] = "audio_complete"]_vars

\* C12: a batch whose status is audio_complete has the artifact flag on every
\* persisted unit, in every reachable state: also when units arrive after
\* dispatch and when the batch-level audio-success webhook is delivered
C12_AudioCompleteMeansAllFlagged ==
    \A b \in batches :
        status[b] = "audio_complete" => CountWithAudio(b) = Len(units[b])

\* unit i of batch b is persisted and has no artifact
LacksArtifact(b, i) == i \in 1..Len(units[b]) /\ ~units[b][i].audio

\* C13: every persisted unit that lacks an artifact eventually has a dispatch
\* request emitted for it, also a unit that arrives after the batch's 50%
\* dispatch pass was issued
C13_EveryUnitEventuallyDispatched ==
    \A b \in BatchIds, i \in 1..MaxUnits :
        LacksArtifact(b, i) ~> (i <= Len(sent[b]) /\ sent[b][i] >= 1)

\* the statuses at which the Dispatcher is to skip
DispatchedStatuses == {"audio_requested", "audio_complete", "audio_failed"}

\* the records of the store and the requests posted
Records == <<batches, status, receivedCount, expectedCount, units, stamps, sent, passes>>

\* C14: a Dispatcher call that reads a batch whose status is audio_requested,
\* audio_complete or audio_failed returns to its caller at once: it sends no
\* request and changes no record
C14_DispatcherSkipsProcessedBatch ==
    [][/\ \A h \in Handlers :
            (web[h].pc = "d_read" /\ web'[h] # web[h]
               /\ status[web[h].b] \in DispatchedStatuses)
            => (web'[h].pc = web[h].ret /\ web'[h].ret = web[h].ret /\ Records' = Records)
       /\ (sweep.pc = "d_read" /\ sweep' # sweep /\ status[sweep.b] \in DispatchedStatuses)
            => (sweep'.pc = sweep.ret /\ Records' = Records)]_vars

\* a handler that won pending -> partial_complete is back from the Dispatcher
\* with no request posted for the batch, whose only units lack an artifact and
\* whose status an artifact-failed report has set meanwhile
C14_Witness ==
    \E h \in Handlers :
        /\ web[h].pc = "p_req"
        /\ status[web[h].b] = "audio_failed"
        /\ units[web[h].b] # <<>>
        /\ CountWithAudio(web[h].b) = 0
        /\ passes[web[h].b] = 0

\* C15: the artifact-failed webhook for an existing batch sets the status to
\* audio_failed whatever the status was (audio_complete, failed and pending
\* included); a second report for the batch leaves it audio_failed
C15_FailureReportAlwaysSetsAudioFailed ==
    /\ [](\A b \in batches :
            ENABLED (handleAudioGenerationFailure(b, 1) /\ status'[b] = "audio_failed"))
    /\ [][\A b \in batches :
            handleAudioGenerationFailure(b, 1) => status'[b] = "audio_failed"]_vars

\* a batch that the timeout pass had marked failed (no unit, no dispatch) is
\* audio_failed after a failure report
C15_Witness ==
    \E b \in batches :
        /\ status[b] = "audio_failed"
        /\ units[b] = <<>>
        /\ "completedAt" \in stamps[b]

\* the two periodic tasks
Tasks == {"summary", "maintenance"}

\* C16: each of the two periodic tasks has at most one invocation of its body
\* in flight; a fire during an in-flight invocation starts no body, and the
\* end of an invocation starts none either (a skipped fire is not queued)
C16_OneInvocationPerTask ==
    /\ [](\A t \in Tasks : bodies[t] <= 1)
    /\ [][\A t \in Tasks : bodies[t] >= 1 => bodies'[t] <= bodies[t]]_vars

\* the maintenance task's cron job can fire (its flag is set, so the fire is
\* skipped) while the bodies of both tasks are in flight
C16_Witness ==
    /\ bodies["summary"] = 1 /\ summaryPc = "send"
    /\ bodies["maintenance"] = 1 /\ sweep.pc = "t_cnt"
    /\ ENABLED executeBatchMaintenanceTask

\* the source states the lifecycle table names for a transition to status t
SourcesOf(t) == {s \in Statuses : <<s, t>> \in AllowedTransitions}

\* C17: a write changes a batch's status only when the batch is in one of the
\* source states named for the transition; in particular the write of
\* audio_requested after a dispatch takes effect only on a batch that is still
\* partial_complete or complete
C17_StatusWritesAreConditional ==
    [][\A b \in BatchIds :
          /\ status'[b] # status[b] => status[b] \in SourcesOf(status'[b])
          /\ (status'[b] = "audio_requested" /\ status[b] # "audio_requested")
                => status[b] \in {"partial_complete", "complete"}]_vars

\* C18: a batch that is audio_complete or audio_failed keeps that status; in
\* particular a handler that ends its dispatch loop after an artifact-ready or
\* artifact-failed webhook was handled does not move it back to audio_requested
C18_AudioOutcomeIsFinal ==
    [][\A b \in BatchIds :
          status[b] \in {"audio_complete", "audio_failed"} => status'[b] = status[b]]_vars

\* where a caller stands inside the Dispatcher, and at the status write that
\* follows its return
DispatchPcs == {"d_read", "d_find", "d_count", "d_send"}
AfterDispatchPcs == {"p_req", "f_req", "t_req", "r_req", "pp_req"}

\* the step is a conditional update of batch b, issued at pc, that matched:
\* the batch was in the update's source state and is in its target state
Matched(pc, b) ==
    \/ pc \in {"p_cas", "pp_cas"} /\ status[b] = "pending" /\ status'[b] = "partial_complete"
    \/ pc \in {"f_cas", "t_cas"} /\ status[b] = "pending" /\ status'[b] = "complete"
    \/ pc = "r_cas" /\ status[b] = "failed" /\ status'[b] = "complete"

\* C19: a caller (a completion handler of the Evaluator, or a handler of the
\* sweep) enters the Dispatcher only in the step in which its own conditional
\* update matched; a caller whose conditional update matched nothing neither
\* enters the Dispatcher nor goes on to the status write that follows it
C19_DispatchOnlyAfterWinning ==
    [][/\ \A h \in Handlers :
            /\ (web'[h].pc = "d_read" /\ web[h].pc # "d_read")
                  => (web[h].pc \in {"p_cas", "f_cas"} /\ Matched(web[h].pc, web[h].b))
            /\ (web[h].pc \in {"p_cas", "f_cas"} /\ web'[h] # web[h]
                  /\ ~Matched(web[h].pc, web[h].b))
                  => (/\ web'[h].pc \notin DispatchPcs \cup AfterDispatchPcs
                      /\ status' = status /\ sent' = sent)
       /\ (sweep'.pc = "d_read" /\ sweep.pc # "d_read")
             => (sweep.pc \in {"t_cas", "r_cas", "pp_cas"} /\ Matched(sweep.pc, sweep.b))
       /\ (sweep.pc \in {"t_cas", "r_cas", "pp_cas"} /\ sweep' # sweep
             /\ ~Matched(sweep.pc, sweep.b))
             => (/\ sweep'.pc \notin DispatchPcs \cup AfterDispatchPcs
                 /\ status' = status /\ sent' = sent)]_vars

\* two unit-arrival handlers race on one batch: one has won pending ->
\* partial_complete and is in the Dispatcher, the other is about to issue its
\* conditional update on a status that is no longer pending
C19_Witness ==
    \E g, h \in Handlers :
        /\ g # h
        /\ web[g].b = web[h].b
        /\ web[g].pc \in DispatchPcs /\ web[g].ret = "p_req"
        /\ web[h].pc = "p_cas"
        /\ status[web[h].b] = "partial_complete"

\* C20: an Evaluator call that finds receivedCount >= expectedCount issues no
\* dispatch when it moves the batch partial_complete -> complete and enters a
\* dispatch pass when it moves the batch pending -> complete; a batch with
\* expectedCount = 1 that received its single unit has passed through
\* complete and had exactly one dispatch pass
C20_FullCompletionDispatch ==
    /\ [][\A h \in Handlers :
            (web[h].pc \in {"f_pc", "f_cas"} /\ web'[h] # web[h]) =>
               /\ (status[web[h].b] = "partial_complete" /\ status'[web[h].b] = "complete")
                     => (web'[h].pc \notin DispatchPcs /\ sent' = sent)
               /\ (status[web[h].b] = "pending" /\ status'[web[h].b] = "complete")
                     => web'[h].pc = "d_read"]_vars
    /\ [](\A b \in batches :
            (WebQuiet /\ expectedCount[b] = 1 /\ Len(units[b]) = 1)
               => ("completedAt" \in stamps[b] /\ passes[b] = 1))

\* C21: the audio-completion check makes a batch audio_complete only when the
\* batch is audio_requested and the units with an artifact are at least the
\* units received; from any other status the check leaves the status alone
C21_AudioCheckOnlyFromRequested ==
    [][\A h \in Handlers :
          (web[h].pc = "c_write" /\ web'[h] # web[h] /\ status' # status)
             => /\ status[web[h].b] = "audio_requested"
                /\ status'[web[h].b] = "audio_complete"
                /\ CountWithAudio(web[h].b) >= receivedCount[web[h].b]]_vars

\* C22: when the timeout pass handles a timed-out batch that is pending or
\* partial_complete and has a persisted unit, the batch is made complete and,
\* when a unit lacks an artifact, a dispatch pass is entered: in the pending
\* case and in the partial_complete case alike
C22_TimeoutCompletesAndDispatches ==
    [][((\/ sweep.pc = "t_cas" /\ status[sweep.b] = "pending"
         \/ sweep.pc = "t_pc" /\ status[sweep.b] = "partial_complete")
        /\ sweep' # sweep /\ faults' = faults /\ units[sweep.b] # <<>>)
          => /\ status'[sweep.b] = "complete"
             /\ SummariesWithoutAudio(sweep.b) # <<>> => sweep'.pc = "d_read"]_vars

\* C23: a batch becomes failed only in a state where its deadline has passed
\* and no unit is persisted for it; a unit persisted between the sweep's
\* count and its status write keeps the batch from becoming failed
C23_FailedOnlyWithoutUnits ==
    [][\A b \in BatchIds :
          (status'[b] = "failed" /\ status[b] # "failed")
             => (timedOut[b] /\ units[b] = <<>>)]_vars

\* the sweep is in the orphan-recovery pass
InOrphanPass(s) ==
    \/ s.pc \in {"o_find", "o_cnt", "r_aud", "r_cas", "r_req", "r_ac"}
    \/ (s.pc \in DispatchPcs /\ s.ret = "r_req")

\* the fields of the batch records
BatchRecord == <<status, receivedCount, expectedCount, stamps>>

\* C24: the orphan-recovery pass changes a batch only from its conditional
\* failed -> complete update on: when the update matches, the pass enters a
\* dispatch pass and then writes audio_requested if it counted units without
\* an artifact, and writes audio_complete without dispatch if every unit it
\* counted has one; when the batch is no longer failed, the update and the
\* pass change nothing for it
C24_OrphanRecoveryIsConditional ==
    [][/\ (InOrphanPass(sweep) /\ sweep' # sweep /\ BatchRecord' # BatchRecord)
             => sweep.pc \in {"r_cas", "r_req", "r_ac"}
       /\ (sweep.pc = "r_cas" /\ sweep' # sweep /\ status[sweep.b] = "failed")
             => /\ status'[sweep.b] = "complete"
                /\ sweep.cnt > 0
                /\ IF sweep.cnt > sweep.aud
                   THEN sweep'.pc = "d_read" /\ sweep'.ret = "r_req"
                   ELSE sweep'.pc = "r_ac"
       /\ (sweep.pc = "r_cas" /\ sweep' # sweep /\ status[sweep.b] # "failed")
             => /\ BatchRecord' = BatchRecord /\ sent' = sent /\ passes' = passes
                /\ sweep'.pc \notin DispatchPcs \cup {"r_req", "r_ac"}
       /\ (sweep.pc = "r_req" /\ sweep' # sweep) => status'[sweep.b] = "audio_requested"
       /\ (sweep.pc = "r_ac" /\ sweep' # sweep)
             => (status'[sweep.b] = "audio_complete" /\ sent' = sent /\ passes' = passes)]_vars

\* the pass is about to issue its conditional update for a batch that a
\* webhook has meanwhile taken out of failed
C24_Witness ==
    /\ sweep.pc = "r_cas"
    /\ sweep.st = "failed"
    /\ status[sweep.b] # "failed"
    /\ units[sweep.b] # <<>>

\* the sweep is in the partial-completion pass
InPartialPass(s) ==
    \/ s.pc \in {"p_find", "pp_cas", "pp_req"}
    \/ (s.pc \in DispatchPcs /\ s.ret = "pp_req")

\* a pending batch that has received units and stands at 50% or more
PendingAtHalf(b) ==
    /\ b \in batches
    /\ status[b] = "pending"
    /\ receivedCount[b] > 0
    /\ 2 * receivedCount[b] >= expectedCount[b]

\* the batches the partial-completion pass still has to visit
PartialTodo(s) ==
    {s.list[k].b : k \in 1..Len(s.list)} \cup (IF s.pc = "pp_cas" THEN {s.b} ELSE {})

C26_TimedOutBatchLeavesWaiting ==
    \A b \in BatchIds :
        (b \in batches /\ timedOut[b])
            ~> (status[b] \notin {"pending", "partial_complete"})

\* a sweep run has taken a batch out of pending after its deadline
C26_Witness ==
    \E b \in batches :
        /\ timedOut[b]
        /\ sweep.pc \in {"t_req", "o_find"}
        /\ b \in sweep.sel
        /\ status[b] \in {"complete", "failed"}

\* C27: a batch's receivedCount never decreases from one state to the next,
\* under any interleaving of the unit-arrival webhooks' atomic increment with
\* the count the timeout pass and the orphan-recovery pass write
C27_ReceivedCountNeverDecreases ==
    [][\A b \in BatchIds : b \in batches => receivedCount'[b] >= receivedCount[b]]_vars

\* C28: a unit for which a dispatch request was made and that stays without
\* an artifact in a batch that is audio_requested is eventually picked up by
\* a sweep run: a new dispatch request is issued for it or the batch's
\* status changes
C28_SweepPicksUpFailedUnit ==
    \A b \in BatchIds, i \in 1..MaxUnits, k \in 1..2 :
        (/\ status[b] = "audio_requested"
         /\ LacksArtifact(b, i)
         /\ i <= Len(sent[b]) /\ sent[b][i] = k)
            ~> \/ status[b] # "audio_requested"
               \/ ~LacksArtifact(b, i)
               \/ sent[b][i] > k

\* the step of a dispatch pass at p posts the request for the first unit of
\* its list alone, and goes on with the rest of the list or, after the last
\* unit, leaves the pass
LoopStep(p, q) ==
    /\ sent' = [sent EXCEPT ![p.b][Head(p.q)] = @ + 1]
    /\ IF Len(p.q) = 1
       THEN q.pc \notin DispatchPcs
       ELSE q.pc = "d_send" /\ q.b = p.b /\ q.q = Tail(p.q)

\* C29: within a dispatch pass a failed send does not stop the loop: each
\* step of the loop posts the request for the next unit of the fetched list,
\* once and in fetch order, whatever requests have failed; the pass ends
\* after the last unit, and no step of it waits for a request to settle
C29_SendFailureDoesNotStopLoop ==
    /\ [][/\ \A h \in Handlers :
                (web[h].pc \in {"d_count", "d_send"} /\ web'[h] # web[h]
                    /\ faults' = faults)
                    => LoopStep(web[h], web'[h])
          /\ (sweep.pc \in {"d_count", "d_send"} /\ sweep' # sweep /\ faults' = faults)
                => LoopStep(sweep, sweep')
          /\ rejected' # rejected => (web' = web /\ sweep' = sweep /\ sent' = sent)]_vars
    /\ [](\A h \in Handlers :
             web[h].pc \in {"d_count", "d_send"}
                => ENABLED (webDispatch_count(h) \/ webDispatch_send(h)))

\* a pass posts the request for its second unit after the request for its
\* first unit has failed
C29_Witness ==
    \E h \in Handlers :
        /\ web[h].pc = "d_send"
        /\ Len(web[h].q) >= 1
        /\ \E i \in 1..Len(sent[web[h].b]) :
              /\ i < Head(web[h].q)
              /\ sent[web[h].b][i] = 1
              /\ rejected[web[h].b][i] = 1

\* the units of batch b whose artifact flag is not set
Unflagged(b) == {i \in 1..Len(units[b]) : ~units[b][i].audio}

\* the fetch of a dispatch pass at p, leading to q: the pass takes the
\* unflagged units, in ascending order, and leaves when there is none
FetchStep(p, q) ==
    IF Unflagged(p.b) = {}
    THEN q.pc \notin DispatchPcs
    ELSE /\ q.pc = "d_count" /\ q.b = p.b
         /\ {q.q[k] : k \in 1..Len(q.q)} = Unflagged(p.b)
         /\ \A k \in 1..(Len(q.q) - 1) : q.q[k] < q.q[k + 1]

\* the passes in their loop: the batch and the list of units still to send
Loops ==
    {<<web[h].b, web[h].q>> : h \in {g \in Handlers : web[g].pc \in {"d_count", "d_send"}}}
        \cup (IF sweep.pc \in {"d_count", "d_send"} THEN {<<sweep.b, sweep.q>>} ELSE {})

\* C30: a dispatch pass takes exactly the units of the batch whose artifact
\* flag is not set when it fetches them, and a request is posted only by a
\* pass, for the next unit of the list it fetched
C30_DispatchExactlyUnflagged ==
    [][/\ \A h \in Handlers :
             (web[h].pc = "d_find" /\ web'[h] # web[h] /\ faults' = faults)
                => FetchStep(web[h], web'[h])
       /\ (sweep.pc = "d_find" /\ sweep' # sweep /\ faults' = faults)
             => FetchStep(sweep, sweep')
       /\ \A b \in BatchIds : \A i \in 1..Len(sent[b]) :
             sent'[b][i] # sent[b][i]
                => /\ sent'[b][i] = sent[b][i] + 1
                   /\ \E l \in Loops : l[1] = b /\ Head(l[2]) = i
       /\ \A h \in Handlers :
             (web[h].pc = "d_send" /\ web'[h].pc = "d_send")
                => \E k \in 0..Len(web[h].q) : web'[h].q = SubSeq(web[h].q, k + 1, Len(web[h].q))
       /\ (sweep.pc = "d_send" /\ sweep'.pc = "d_send")
             => \E k \in 0..Len(sweep.q) : sweep'.q = SubSeq(sweep.q, k + 1, Len(sweep.q))]_vars

\* a pass has fetched the units of a batch of which another unit has its
\* artifact already
C30_Witness ==
    \E h \in Handlers :
        /\ web[h].pc = "d_count"
        /\ web[h].q # <<>>
        /\ \E i \in 1..Len(units[web[h].b]) : units[web[h].b][i].audio

\* no batch is in the source state of a pass of the sweep
NothingQualifies ==
    \A b \in batches :
        /\ ~(timedOut[b] /\ status[b] \in {"pending", "partial_complete"})
        /\ ~(status[b] = "failed" /\ receivedCount[b] = 0 /\ units[b] # <<>>)
        /\ ~(status[b] = "pending" /\ receivedCount[b] > 0
                /\ 2 * receivedCount[b] >= expectedCount[b])

\* the batch records, the units and the requests posted
Store ==
    <<batches, status, receivedCount, expectedCount, timedOut, units, sent, passes,
      recovered, stamps, rejected, payload, deadline, run>>

\* where a sweep run stands while it takes up no batch
RestingPcs == {"t_find", "o_find", "o_cnt", "p_find", "fin"}

\* C31: a sweep run that meets no webhook, no passing deadline and no store
\* error ends with no batch in the source state of a pass, and a run that
\* starts so changes no batch and no unit and posts no request: running the
\* sweep twice in a row leaves the state of running it once
C31_SweepIsIdempotent ==
    /\ [](sweep.pc = "fin" => NothingQualifies)
    /\ [][(NothingQualifies /\ sweep.pc \in RestingPcs /\ sweep' # sweep)
             => (Store' = Store /\ sweep'.pc \in RestingPcs \cup {"idle"})]_vars
    /\ [][(sweep.pc = "idle" /\ sweep' # sweep) => sweep'.pc = "t_find" /\ Store' = Store]_vars

\* a run starts after an earlier run has failed the batch and has left
\* nothing for a pass to take up
C31_Witness ==
    /\ sweep.pc = "o_cnt"
    /\ NothingQualifies
    /\ status[sweep.b] = "failed"
    /\ timedOut[sweep.b]

\* C32: a batch's failureReason and its audioUrl are each written at most
\* once: once set, a later artifact-failed webhook or batch-level
\* audio-success webhook leaves the stored value as it is
C32_PayloadWrittenOnce ==
    [][\A b \in BatchIds :
          /\ failureReason[b] # 0 => failureReason'[b] = failureReason[b]
          /\ audioUrl[b] # 0 => audioUrl'[b] = audioUrl[b]]_vars

\* C33: a unit's artifact flag and artifact URL are written exactly once:
\* once the flag is set, no step modifies the unit's flag or URL again, the
\* flag is never reset and no unit is deleted
C33_UnitArtifactWrittenOnce ==
    [][\A b \in BatchIds :
          /\ Len(units'[b]) >= Len(units[b])
          /\ \A i \in 1..Len(units[b]) :
                units[b][i].audio
                    => /\ units'[b][i] = units[b][i]
                       /\ summaryUrl'[b][i] = summaryUrl[b][i]]_vars

\* ---------------------------------------------------------------- C34
\* C34: every batch record is created with status pending, receivedCount 0,
\* an expectedCount of at least 1 that is the number of summaries the run
\* generated, and a timeoutAt 30 minutes after its creation, which has not
\* passed yet; a run that generated no summaries creates no batch record and
\* sends nothing to the summary service, and whatever a run sends is the
\* summaries of the batch it created.
C34_CreatedPendingWithDeadline ==
    [][/\ \A b \in BatchIds :
             (b \notin batches /\ b \in batches')
                 => /\ status'[b] = "pending"
                    /\ receivedCount'[b] = 0
                    /\ expectedCount'[b] >= 1
                    /\ expectedCount'[b] = summaries'
                    /\ createdAt'[b] \in Times
                    /\ timeoutAt'[b] = createdAt'[b] + 30
                    /\ ~timedOut'[b]
       /\ (summaryPc = "generate" /\ summaryPc' # "generate" /\ summaries' = 0)
             => /\ batches' = batches
                /\ summaryPc' # "send"
                /\ posted' = 0
       /\ (summaryPc' = "send" /\ summaryPc # "send")
             => \E b \in BatchIds : b \notin batches /\ b \in batches'
       /\ posted' # posted /\ posted' # 0
             => /\ summaryPc = "send"
                /\ posted' = summaries
                /\ summaries >= 1]_vars

\* a run created batch 1 with its deadline, and a later run that generated no
\* summaries is ending without a second record
C34_Witness ==
    /\ summaryPc = "finally"
    /\ summaries = 0
    /\ posted = 0
    /\ batches = {1}
    /\ status[1] = "pending"
    /\ expectedCount[1] >= 1
    /\ timeoutAt[1] = createdAt[1] + 30

\* ---------------------------------------------------------------- C35
\* C35: a request in which a store operation failed, the Completion
\* Evaluator's and the audio-completion check's operations included, is
\* answered with a failed response (500), never with 200.
C35_FailureIsSurfaced ==
    [][\A h \in Handlers :
          (/\ web[h].pc # "idle"
           /\ web'[h].pc = "idle"
           /\ (web[h].err \/ faults' = faults + 1))
              => web'[h].res = 500]_vars

\* ---------------------------------------------------------------- C36
\* C36: with unit-arrival requests only, interleaved at every store
\* operation, no increment is lost: a batch's receivedCount is the number of
\* its units whose request has passed its increment, so once the requests
\* have completed it is their number and the number of units persisted.
C36_NoLostIncrement ==
    \A b \in BatchIds :
        receivedCount[b]
          + Cardinality({h \in Handlers : web[h].pc = "inc" /\ web[h].b = b})
            = Len(units[b])

\* two requests for batch 1 ran at the same time (the second slot serves only
\* while the first is busy) and both have been answered
C36_Witness ==
    /\ \A h \in Handlers : web[h].pc = "idle" /\ web[h].res = 200
    /\ Len(units[1]) = 2
    /\ receivedCount[1] = 2

\* ---------------------------------------------------------------- C37
\* C37: under any interleaving of unit-arrival requests with the sweep's
\* corrections of receivedCount, a batch's receivedCount never exceeds the
\* number of units persisted for the batch.
C37_CountWithinUnits ==
    \A b \in BatchIds : receivedCount[b] <= Len(units[b])

\* ---------------------------------------------------------------- C38
\* C38: a batch in partial_complete or complete eventually reaches
\* audio_requested, audio_complete or audio_failed while requests and the
\* sweep keep running, also when the sweep moved it from partial_complete to
\* complete after its deadline and when the Dispatcher failed after its
\* caller won the transition.
C38_CompletedBatchGetsRequested ==
    \A b \in BatchIds :
        (b \in batches /\ status[b] \in {"partial_complete", "complete"})
            ~> (status[b] \in {"audio_requested", "audio_complete", "audio_failed"})

\* ---------------------------------------------------------------- C39
\* C39: the reentrancy flag of each periodic task is cleared whenever an
\* invocation of the task ends, whether its body returned or threw and
\* whether or not the error alert could be sent; with no invocation in flight
\* the flag is clear, so the next fire of the task starts its body.
C39_FlagClearedOnExit ==
    /\ [][/\ (summaryPc # "idle" /\ summaryPc' = "idle")
              => (~isRunning' /\ bodies'["summary"] = 0)
          /\ (sweep.pc # "idle" /\ sweep'.pc = "idle")
              => (~isBatchMaintenanceRunning' /\ bodies'["maintenance"] = 0)]_vars
    /\ [](summaryPc = "idle"
             => /\ ~isRunning
                /\ ENABLED (executeSummaryTask /\ summaryPc' = "generate"))
    /\ [](sweep.pc = "idle"
             => /\ ~isBatchMaintenanceRunning
                /\ ENABLED (executeBatchMaintenanceTask /\ sweep'.pc = "t_find"))

\* a maintenance run has failed batch 1 and ended with its flag cleared, and
\* a summary run whose send threw has left the catch block for its finally
C39_Witness ==
    /\ sweep.pc = "idle"
    /\ ~isBatchMaintenanceRunning
    /\ status[1] = "failed"
    /\ summaryPc = "finally"
    /\ summaries >= 1
    /\ posted = 0

\* ---------------------------------------------------------------- C40
\* C40: an artifact-ready webhook whose unit id and user id match no
\* persisted unit is answered with an error (500) and changes nothing: no
\* unit, no audio URL, no user mix and no batch record.
C40_UnknownUnitChangesNothing ==
    [][\A h \in Handlers, b \in BatchIds, i \in 1..MaxUnits, u \in Callers, url \in Urls :
          (/\ ~(i \in 1..Len(units[b]) /\ units[b][i].uid = u)
           /\ handleSummaryAudioGenerationSuccess(h, b, i, u, url, TRUE))
              => /\ web'[h] = [IdleWeb EXCEPT !.res = 500]
                 /\ units' = units
                 /\ summaryUrl' = summaryUrl
                 /\ mixes' = mixes
                 /\ audioUrl' = audioUrl
                 /\ failureReason' = failureReason
                 /\ batches' = batches
                 /\ BatchRecord' = BatchRecord]_vars

\* a webhook for a unit of batch 1 that is not persisted for its user was
\* answered with an error; the batch's one unit has no artifact and no user
\* mix exists
C40_Witness ==
    /\ web[1].pc = "idle"
    /\ web[1].res = 500
    /\ Len(units[1]) = 1
    /\ ~units[1][1].audio
    /\ summaryUrl[1][1] = 0
    /\ mixes = {}

====
